---- MODULE Spec2Model ----
(***************************************************************************)
(* Autonova RMM control plane.                                             *)
(*                                                                         *)
(* Service side (cloud_server): the session registry connected_agents,    *)
(* the command store pending_commands, the REST submit handler            *)
(* send_command, the background transmit task send_command_to_agent and   *)
(* the Socket.IO handlers of AgentNamespace.                               *)
(*                                                                         *)
(* Agent side (app_client): SocketManager.on_command with the             *)
(* CommandExecutor it calls and the frames it emits.                       *)
(*                                                                         *)
(* Abstractions: timestamps are integers (seconds); the payload fields    *)
(* hostname/username, issued_by/issued_at, created_at/completed_at and     *)
(* disconnected_at are written but never read by the service and are left *)
(* out; uuid4 command ids and Socket.IO sids are fresh counters.  Every    *)
(* await is a suspension point: other handlers run between the two halves *)
(* of send_command_to_agent and between the emits of the agent.  The       *)
(* frames the agent emits are kept per command id, in emission order.      *)
(*                                                                         *)
(* The AutonomousManager of the agent keeps two queues and rewrites both   *)
(* files on every change; a file opened for writing is unreadable until    *)
(* the dump has completed.  In SpecLoop a connection comes back either    *)
(* through the loop's connect() or through the transport client's own     *)
(* automatic reconnection; the clock of the loop advances by the delays    *)
(* it sleeps and by the duration of failing connects, and stands still     *)
(* while the agent is connected.                                           *)
(*                                                                         *)
(* AESCipher is modelled in small (two-bit bytes, two-byte blocks, a       *)
(* keyed permutation for the block cipher) with the code's structure:      *)
(* digest of the passphrase, random iv, PKCS7, CBC, base64.                *)
(*                                                                         *)
(* The specifications share the variables:                                 *)
(*   Spec          the session registry (connect, auth, heartbeat,         *)
(*                 disconnect, clock);                                      *)
(*   SpecDispatch  the dispatcher with the registry events it reads        *)
(*                 (each agent on its own transport, no heartbeats);        *)
(*   SpecAgent     the agent's command handling;                            *)
(*   SpecQueue     the manager's action queue: queue_action, execution     *)
(*                 passes, saves, process stop and restart;                 *)
(*   SpecDecide    analyze_and_decide and get_retry_interval on drawn       *)
(*                 arguments;                                               *)
(*   SpecLoop      start-up and main loop of the agent with                 *)
(*                 connection_lost / connection_restored and the offline    *)
(*                 check;                                                   *)
(*   SpecLoopFair  the same with connects that fail at once, under weak    *)
(*                 fairness of the agent's own steps;                       *)
(*   SpecLive      SpecLoop together with one command received over the    *)
(*                 session;                                                 *)
(*   SpecCipher    one text encrypted on one side, possibly changed on     *)
(*                 the wire, decrypted on the other;                        *)
(*   SpecProgress  progress frames for transmitted commands;                *)
(*   SpecHeartbeat SocketManager's connection state, its connect handler   *)
(*                 and its heartbeat task;                                  *)
(*   SpecWriteFail the manager's queues on a disk whose writes may fail;   *)
(*   SpecCycle     the offline check of an agent that never connects, over *)
(*                 a queue stored by an earlier run;                        *)
(*   SpecTypes     one command from submit through the executor's branch   *)
(*                 to its result frame.                                     *)
(***************************************************************************)
EXTENDS Integers, Sequences, FiniteSets, TLC

\* ---------------------------------------------------------------- bounds
MaxSids == 2          \* transport handles the server hands out
MaxCmds == 1          \* command ids the dispatcher allocates
MaxTime == 1          \* clock ticks the model lets pass
TickSeconds == 100    \* seconds per clock tick of the model
MaxLogs == 1          \* entries kept per command_logs list
MaxProgress == 2      \* entries kept per progress list
MaxInFlight == 2      \* command frames the agent receives
MaxEmits == 2         \* progress callbacks one execution makes
MaxBadFrames == 1     \* command frames that fail to decrypt
MaxActions == 2       \* queue_action calls the model makes
MaxSync == 2          \* items kept in pending_sync
MaxThreats == 2       \* threats_found entries of a scan result
MaxIssues == 2        \* issues_found entries of a scan result
MaxRetryCount == 8    \* largest retry_count the model draws
MaxAttempts == 14     \* reconnect_attempts the main loop counts up to
MaxDrops == 2        \* times the transport goes down
MaxClock == 1400      \* seconds since_check counts up to
MaxPlain == 2         \* bytes of a text handed to encrypt
MaxTasks == 3         \* heartbeat tasks a SocketManager creates
MaxWire == 3          \* frames recorded per connection
MaxConnecting == 2    \* on_connect handlers suspended at one time

\* ------------------------------------------------------ program constants
HEARTBEAT_TIMEOUT == 90

AgentIds == {"a1", "a2"}
Sids == 1..MaxSids
CmdIds == 1..MaxCmds
None == "None"

valid_commands ==
    {"health_check", "deep_clean", "sys_fix", "full_optimize", "self_destruct",
     "view_processes", "analyze_disk", "force_delete", "clean_registry",
     "speed_up_boot", "network_reset", "generate_report",
     "list_programs", "force_uninstall", "kill_process",
     "browse_files", "view_downloads", "view_recycle_bin", "delete_file",
     "scan_browser_history", "scan_threats", "scan_network"}

\* request inputs the model enumerates; confirm is params.get('confirm'):
\* "absent" (None), the booleans "false" / "true", or the string "yes"
Requests ==
    {[type |-> "health_check", confirm |-> "absent"],
     [type |-> "reboot", confirm |-> "absent"],
     [type |-> "self_destruct", confirm |-> "absent"],
     [type |-> "self_destruct", confirm |-> "false"],
     [type |-> "self_destruct", confirm |-> "true"],
     [type |-> "self_destruct", confirm |-> "yes"]}

ProgressData == {"p"}
ResultData == {"ok"}
ErrorText == {"boom"}

VARIABLES
    now,               \* datetime.now(), in seconds
    next_sid,          \* next transport handle Socket.IO assigns
    open_sids,         \* transports currently connected
    connected_agents,  \* ordered dict agent_id -> session info
    pending_commands,  \* dict command_id -> command record
    next_cmd,          \* uuid4 stand-in: next fresh command id
    tasks,             \* background transmit tasks: command_id -> task
    emitted,           \* 'command' packets written to a transport
    last,              \* last handler invocation and its outcome
    replaced,          \* history: <<agent_id, sid>> of the session that an
                       \* auth on another transport replaced most recently
    transport_up,      \* agent: sio.connected
    handlers,          \* agent: on_command invocations, by command id
    frames,            \* agent: frames emitted to the service, in emission
                       \* order, by the command_id they carry (0: None)
    state,             \* AutonomousManager.state
    retry_count,       \* AutonomousManager.retry_count
    action_queue,      \* AutonomousManager.action_queue
    pending_sync,      \* AutonomousManager.pending_sync
    queue_file,        \* content of action_queue.json
    sync_file,         \* content of pending_sync.json
    next_action,       \* datetime.now().timestamp() stand-in: next action id
    mop,               \* the manager operation in progress and its locals
    owed,              \* history: ids queue_action has returned and that no
                       \* execution pass has removed from the queue since
    scan_in,           \* the scan_results argument analyze_and_decide gets
    last_scan_results, \* AutonomousManager.last_scan_results
    recommendations,   \* AutonomousManager.recommendations
    interval,          \* value the last get_retry_interval call returned
    lpc,               \* AutonovaAgent: position in start / _main_loop
    attempt,           \* _connect_with_retry: attempt
    is_connected,      \* SocketManager.is_connected
    offline_mode,      \* AutonovaAgent.offline_mode
    reconnect_attempts,\* _main_loop: reconnect_attempts
    failures,          \* history: connection attempts that failed since the
                       \* last successful one
    delay,             \* _connect_with_retry / _main_loop: delay, the
                       \* seconds the loop sleeps before its next attempt
    sio_reconnecting,  \* socketio.AsyncClient: its reconnection task runs
    tries,             \* history: parity of the connect() calls made
    since_check,       \* _main_loop: seconds since last_autonomous_check
    drops,             \* history: times the transport went down
    lost_calls,        \* history: connection_lost calls since the
                       \* transport last went down
    agent_env,         \* agent process: os.environ.get('AUTONOVA_KEY')
    server_env,        \* service process: os.environ.get('ENCRYPTION_KEY')
    plain,             \* the text handed to encrypt
    sender,            \* the side that encrypts; the other side decrypts
    envelope,          \* the frame on the wire: what encrypt returned
    corrupted,         \* the frame was changed on the wire
    received,          \* outcome of decrypt at the other side
    conn_state,        \* SocketManager.state
    sio_connected,     \* socketio.AsyncClient.connected
    connecting,        \* on_connect handlers suspended in _send_auth
    stopping,          \* SocketManager.disconnect() is between its steps
    heartbeat_task,    \* SocketManager.heartbeat_task: the task it refers to
    running_tasks,     \* heartbeat tasks created and not cancelled
    next_task,         \* identity of the next task asyncio creates
    wire,              \* frames emitted on the present connection
    stray_heartbeat    \* history: a heartbeat frame was emitted while the
                       \* state was not CONNECTED

svars == <<now, next_sid, open_sids, connected_agents, pending_commands,
           next_cmd, tasks, emitted, last, replaced>>

avars == <<transport_up, handlers, frames>>

qvars == <<action_queue, pending_sync, queue_file, sync_file, next_action,
           mop, owed>>

dvars == <<scan_in, last_scan_results, recommendations, interval>>

mvars == <<state, retry_count, qvars, dvars>>

lvars == <<lpc, attempt, is_connected, offline_mode, reconnect_attempts,
           failures>>

\* loop locals and the transport client's reconnection
xvars ==
    <<delay, sio_reconnecting, tries, since_check, drops, lost_calls>>

\* the two AESCipher instances and one frame between them
cvars == <<agent_env, server_env, plain, sender, envelope, corrupted,
           received>>

\* SocketManager's connection state and its heartbeat task
hvars == <<conn_state, sio_connected, connecting, stopping, heartbeat_task,
           running_tasks, next_task, wire, stray_heartbeat>>

ovars == <<xvars, cvars, hvars>>

vars == <<svars, avars, mvars, lvars, ovars>>

\* the transport an agent process connects on (SpecDispatch)
SidOf(a) == IF a = "a1" THEN 1 ELSE 2

\* ------------------------------------------------- ordered dict helpers
HasKey(d, k) == \E i \in 1..Len(d) : d[i].agent_id = k

IndexOf(d, k) == CHOOSE i \in 1..Len(d) : d[i].agent_id = k

Get(d, k) == d[IndexOf(d, k)]

\* d[k] = v : replaces in place when the key exists, appends otherwise
DictPut(d, k, v) ==
    IF HasKey(d, k) THEN [d EXCEPT ![IndexOf(d, k)] = v] ELSE Append(d, v)

Keys(d) == {d[i].agent_id : i \in 1..Len(d)}

Op(op, sid, agent, cmd, resp) ==
    [op |-> op, sid |-> sid, agent |-> agent, cmd |-> cmd, resp |-> resp]

\* ------------------------------------------------------------ liveness
\* get_agent_status: copy of the session with the derived online flag
get_agent_status(a) ==
    IF ~HasKey(connected_agents, a) THEN None
    ELSE LET info == Get(connected_agents, a)
             seconds_since == now - info.last_heartbeat
         IN IF seconds_since > HEARTBEAT_TIMEOUT
            THEN [info EXCEPT !.online = FALSE]
            ELSE info

\* list_agents / get_agent: status string of one session
AgentInfoStatus(a) ==
    IF Get(connected_agents, a).online THEN "online" ELSE "offline"

\* ------------------------------------------------------------- registry
on_connect ==
    /\ next_sid <= MaxSids
    /\ open_sids' = open_sids \cup {next_sid}
    /\ next_sid' = next_sid + 1
    /\ last' = Op("connect", 0, None, 0, None)
    /\ UNCHANGED <<now, connected_agents, pending_commands, next_cmd, tasks,
                   emitted>>
    /\ UNCHANGED <<replaced, avars, mvars, lvars, ovars>>

\* the first session, in dict order, whose sid matches goes offline
MarkOffline(d, sid) ==
    IF \E i \in 1..Len(d) : d[i].sid = sid
    THEN LET i == CHOOSE j \in 1..Len(d) :
                      /\ d[j].sid = sid
                      /\ \A k \in 1..(j - 1) : d[k].sid # sid
         IN [d EXCEPT ![i].online = FALSE]
    ELSE d

on_disconnect(sid) ==
    /\ sid \in open_sids
    /\ open_sids' = open_sids \ {sid}
    /\ connected_agents' = MarkOffline(connected_agents, sid)
    /\ last' = Op("disconnect", sid, None, 0, None)
    /\ UNCHANGED <<now, next_sid, pending_commands, next_cmd, tasks, emitted>>
    /\ UNCHANGED <<replaced, avars, mvars, lvars, ovars>>

\* an auth that updates the stored session but keeps its transport handle
NewSessionKeepsHandle(sid, agent_id) ==
    [sid |-> IF HasKey(connected_agents, agent_id)
             THEN Get(connected_agents, agent_id).sid ELSE sid,
     agent_id |-> agent_id, connected_at |-> now,
     last_heartbeat |-> now, online |-> TRUE, command_logs |-> <<>>]

\* connected_agents[agent_id] = {...}: the session an auth registers
NewSession(sid, agent_id) ==
    [sid |-> sid, agent_id |-> agent_id, connected_at |-> now,
     last_heartbeat |-> now, online |-> TRUE, command_logs |-> <<>>]

on_auth(sid, agent_id) ==
    /\ sid \in open_sids
    /\ connected_agents' =
           DictPut(connected_agents, agent_id, NewSession(sid, agent_id))
    /\ last' = Op("auth", sid, agent_id, 0, "auth_ack")
    /\ replaced' =
           IF /\ HasKey(connected_agents, agent_id)
              /\ Get(connected_agents, agent_id).sid # sid
           THEN <<agent_id, Get(connected_agents, agent_id).sid>>
           ELSE replaced
    /\ UNCHANGED <<now, next_sid, open_sids, pending_commands, next_cmd,
                   tasks, emitted>>
    /\ UNCHANGED <<avars, mvars, lvars, ovars>>

\* auth frame that does not decrypt/parse or carries no agent_id:
\* self.disconnect(sid), which runs the disconnect handler
on_auth_rejected(sid) ==
    /\ sid \in open_sids
    /\ open_sids' = open_sids \ {sid}
    /\ connected_agents' = MarkOffline(connected_agents, sid)
    /\ last' = Op("auth", sid, None, 0, "disconnect")
    /\ UNCHANGED <<now, next_sid, pending_commands, next_cmd, tasks, emitted>>
    /\ UNCHANGED <<replaced, avars, mvars, lvars, ovars>>

on_heartbeat(sid, agent_id) ==
    /\ sid \in open_sids
    /\ connected_agents' =
           IF HasKey(connected_agents, agent_id)
           THEN [connected_agents EXCEPT
                    ![IndexOf(connected_agents, agent_id)] =
                        [@ EXCEPT !.last_heartbeat = now, !.online = TRUE]]
           ELSE connected_agents
    /\ last' = Op("heartbeat", 0, None, 0, None)
    /\ UNCHANGED <<now, next_sid, open_sids, pending_commands, next_cmd,
                   tasks, emitted>>
    /\ UNCHANGED <<replaced, avars, mvars, lvars, ovars>>

\* ----------------------------------------------------------- dispatcher
\* Python truth value of params.get('confirm'): None and False are falsy,
\* True and a non-empty string are truthy
Truthy(confirm) == confirm \in {"true", "yes"}

NewCommand(id, type, confirm) ==
    [id |-> id, type |-> type, confirm |-> confirm]

\* an allow-list check that lets every type through
ValidTypeAny(type) == TRUE

\* request.command_type in valid_commands
ValidType(type) == type \in valid_commands

\* POST /command: checks, id allocation, background task
send_command(agent_id, type, confirm) ==
    /\ next_cmd <= MaxCmds
    /\ IF ~HasKey(connected_agents, agent_id)
       THEN /\ last' = Op("submit", 0, agent_id, 0, "404 Agent not found")
            /\ UNCHANGED <<next_cmd, tasks>>
       ELSE IF ~Get(connected_agents, agent_id).online
       THEN /\ last' = Op("submit", 0, agent_id, 0, "400 Agent is offline")
            /\ UNCHANGED <<next_cmd, tasks>>
       ELSE IF ~ValidType(type)
       THEN /\ last' = Op("submit", 0, agent_id, 0, "400 Invalid command")
            /\ UNCHANGED <<next_cmd, tasks>>
       ELSE IF type = "self_destruct" /\ ~Truthy(confirm)
       THEN /\ last' = Op("submit", 0, agent_id, 0, "400 confirm required")
            /\ UNCHANGED <<next_cmd, tasks>>
       ELSE /\ next_cmd' = next_cmd + 1
            /\ tasks' = (next_cmd :> [agent_id |-> agent_id, sid |-> 0,
                                      command |-> NewCommand(next_cmd, type, confirm),
                                      pc |-> "scheduled"]) @@ tasks
            /\ last' = Op("submit", 0, agent_id, next_cmd, "200 pending")
    /\ UNCHANGED <<now, next_sid, open_sids, connected_agents,
                   pending_commands, emitted>>
    /\ UNCHANGED <<replaced, avars, mvars, lvars, ovars>>

\* a background task that ran to its end leaves the task table
Finished(t, c) == [k \in DOMAIN t \ {c} |-> t[k]]

\* send_command_to_agent up to the await of emit (_sio_instance is set when
\* the namespace is constructed, before the server accepts requests)
transmit_start(c) ==
    /\ c \in DOMAIN tasks
    /\ tasks[c].pc = "scheduled"
    /\ LET a == tasks[c].agent_id IN
       IF \/ ~HasKey(connected_agents, a)
          \/ ~Get(connected_agents, a).online
       THEN /\ tasks' = Finished(tasks, c)
            /\ last' = Op("transmit", 0, None, c, "returned")
            /\ UNCHANGED pending_commands
       ELSE /\ pending_commands' =
                  (c :> [command |-> tasks[c].command, agent_id |-> a,
                         status |-> "pending", progress |-> <<>>,
                         result |-> None, error |-> None]) @@ pending_commands
            /\ tasks' = [tasks EXCEPT ![c].pc = "emitting",
                                      ![c].sid = Get(connected_agents, a).sid]
            /\ last' = Op("transmit", 0, None, c, "emitting")
    /\ UNCHANGED <<now, next_sid, open_sids, connected_agents, next_cmd,
                   emitted>>
    /\ UNCHANGED <<replaced, avars, mvars, lvars, ovars>>

MarkSentForgotten(commands, c) == commands

\* pending_commands[command_id]["status"] = "sent"
MarkSent(commands, c) == [commands EXCEPT ![c].status = "sent"]

\* emit returned: the packet is on the transport, status becomes sent
transmit_sent(c) ==
    /\ c \in DOMAIN tasks
    /\ tasks[c].pc = "emitting"
    /\ emitted' = emitted \cup {[sid |-> tasks[c].sid, id |-> c]}
    /\ pending_commands' = MarkSent(pending_commands, c)
    /\ tasks' = Finished(tasks, c)
    /\ last' = Op("transmit", 0, None, c, "sent")
    /\ UNCHANGED <<now, next_sid, open_sids, connected_agents, next_cmd>>
    /\ UNCHANGED <<replaced, avars, mvars, lvars, ovars>>

\* encrypt or emit raised
transmit_failed(c) ==
    /\ c \in DOMAIN tasks
    /\ tasks[c].pc = "emitting"
    /\ pending_commands' =
           [pending_commands EXCEPT ![c].status = "error",
                                    ![c].error = "emit failed"]
    /\ tasks' = Finished(tasks, c)
    /\ last' = Op("transmit", 0, None, c, "failed")
    /\ UNCHANGED <<now, next_sid, open_sids, connected_agents, next_cmd,
                   emitted>>
    /\ UNCHANGED <<replaced, avars, mvars, lvars, ovars>>

\* the command_logs list has room for one more entry (model bound)
LogRoom(agent_id) ==
    HasKey(connected_agents, agent_id) =>
        Len(Get(connected_agents, agent_id).command_logs) < MaxLogs

StoreProgressFirst(rec, frame) == [rec EXCEPT !.progress = <<frame>> \o @]

\* pending_commands[command_id]["progress"].append(progress)
StoreProgress(rec, frame) == [rec EXCEPT !.progress = Append(@, frame)]

on_progress(sid, command_id, agent_id, data) ==
    /\ sid \in open_sids
    /\ command_id \in DOMAIN pending_commands =>
           Len(pending_commands[command_id].progress) < MaxProgress
    /\ pending_commands' =
           IF command_id \in DOMAIN pending_commands
           THEN [pending_commands EXCEPT ![command_id] =
                    StoreProgress(@, [agent_id |-> agent_id, data |-> data])]
           ELSE pending_commands
    /\ last' = Op("progress", 0, None, command_id,
                  IF command_id \in DOMAIN pending_commands
                  THEN "command_progress" ELSE None)
    /\ UNCHANGED <<now, next_sid, open_sids, connected_agents, next_cmd,
                   tasks, emitted>>
    /\ UNCHANGED <<replaced, avars, mvars, lvars, ovars>>

\* the command record after a result frame
StoreResult(rec, frame) ==
    [rec EXCEPT !.result = frame, !.status = "completed"]

on_result(sid, command_id, agent_id, data) ==
    /\ sid \in open_sids
    /\ LogRoom(agent_id)
    /\ LET frame == [agent_id |-> agent_id, success |-> TRUE, data |-> data] IN
       /\ pending_commands' =
              IF command_id \in DOMAIN pending_commands
              THEN [pending_commands EXCEPT
                       ![command_id] = StoreResult(@, frame)]
              ELSE pending_commands
       /\ connected_agents' =
              IF HasKey(connected_agents, agent_id)
              THEN [connected_agents EXCEPT
                       ![IndexOf(connected_agents, agent_id)].command_logs =
                           Append(@, [command_id |-> command_id,
                                      result |-> data, success |-> TRUE])]
              ELSE connected_agents
    /\ last' = Op("result", 0, None, command_id, "command_result")
    /\ UNCHANGED <<now, next_sid, open_sids, next_cmd, tasks, emitted>>
    /\ UNCHANGED <<replaced, avars, mvars, lvars, ovars>>

\* the command record after an error frame
StoreError(rec, text) ==
    [rec EXCEPT !.status = "error", !.error = text]

on_error(sid, command_id, text) ==
    /\ sid \in open_sids
    /\ pending_commands' =
           IF command_id \in DOMAIN pending_commands
           THEN [pending_commands EXCEPT ![command_id] = StoreError(@, text)]
           ELSE pending_commands
    /\ last' = Op("error", 0, None, command_id, None)
    /\ UNCHANGED <<now, next_sid, open_sids, connected_agents, next_cmd,
                   tasks, emitted>>
    /\ UNCHANGED <<replaced, avars, mvars, lvars, ovars>>

Tick ==
    /\ now < MaxTime * TickSeconds
    /\ now' = now + TickSeconds
    /\ last' = Op("tick", 0, None, 0, None)
    /\ UNCHANGED <<next_sid, open_sids, connected_agents, pending_commands,
                   next_cmd, tasks, emitted>>
    /\ UNCHANGED <<replaced, avars, mvars, lvars, ovars>>

\* ------------------------------------------- AutonomousManager: data
\* ActionPriority
CRITICAL == 1
HIGH == 2
MEDIUM == 3
LOW == 4

\* retry settings of __init__
retry_interval == 5
max_retry_interval == 600

Min(a, b) == IF a < b THEN a ELSE b

SeqsUpTo(S, n) == UNION {[1..k -> S] : k \in 0..n}

\* (type, priority) arguments of the queue_action calls the model makes
ActionInputs ==
    {[type |-> "kill_process", priority |-> CRITICAL],
     [type |-> "clean_disk", priority |-> HIGH],
     [type |-> "optimize", priority |-> MEDIUM],
     [type |-> "maintenance", priority |-> LOW]}

\* scan results: score (absent or a number), threats_found, issues_found
Scores == {0, 39, 40, 59, 60, 90}

ThreatKinds == {"suspicious_process", "suspicious_connection", "unknown"}

IssueKinds ==
    {[type |-> "disk", severity |-> "high"],
     [type |-> "disk", severity |-> "medium"],
     [type |-> "memory", severity |-> "high"],
     [type |-> "security", severity |-> "medium"]}

Scan(has_score, score, threats, issues) ==
    [has_score |-> has_score, score |-> score,
     threats_found |-> threats, issues_found |-> issues]

\* the empty dict {}
EmptyScan == Scan(FALSE, 0, <<>>, <<>>)

ScanInputs ==
    {Scan(TRUE, sc, th, is) :
         sc \in Scores, th \in SeqsUpTo(ThreatKinds, MaxThreats),
         is \in SeqsUpTo(IssueKinds, MaxIssues)}
    \cup {Scan(FALSE, 0, th, is) :
              th \in SeqsUpTo(ThreatKinds, MaxThreats),
              is \in SeqsUpTo(IssueKinds, MaxIssues)}

\* results run_full_scan hands to the offline check of the main loop
FullScans == {Scan(TRUE, 30, <<>>, <<>>), Scan(TRUE, 90, <<>>, <<>>)}

\* a file: missing, unreadable as JSON (opened for writing and not yet
\* completely written), or holding the JSON text of a list
Absent == [exists |-> FALSE, valid |-> FALSE, value |-> <<>>]

Partial == [exists |-> TRUE, valid |-> FALSE, value |-> <<>>]

\* json.dump of a list of dicts of strings and integers; json.load gives
\* the same list back
Json(list) == [exists |-> TRUE, valid |-> TRUE, value |-> list]

\* no manager operation in progress
Idle ==
    [op |-> "idle", pc |-> "idle", after |-> "idle", id |-> 0,
     start |-> <<>>, sync0 |-> 0, next |-> 0, calls |-> <<>>,
     executed |-> <<>>, failed |-> <<>>]

\* _load_persisted_data: a file that does not parse raises, which skips
\* the rest of the function
LoadedQueue ==
    IF queue_file.exists /\ queue_file.valid THEN queue_file.value ELSE <<>>

LoadedSync ==
    IF queue_file.exists /\ ~queue_file.valid THEN <<>>
    ELSE IF sync_file.exists /\ sync_file.valid THEN sync_file.value
    ELSE <<>>

\* AutonomousManager.__init__ in a data directory without files
QueueInit ==
    /\ action_queue = <<>>
    /\ pending_sync = <<>>
    /\ queue_file = Absent
    /\ sync_file = Absent
    /\ next_action = 1
    /\ mop = Idle
    /\ owed = {}

ManagerInit ==
    /\ state = "disconnected"
    /\ retry_count = 0
    /\ QueueInit
    /\ scan_in = EmptyScan
    /\ last_scan_results = EmptyScan
    /\ recommendations = <<>>
    /\ interval = 0

\* AutonovaAgent.__init__ and start up to _connect_with_retry
LoopInit ==
    /\ lpc = "connect_with_retry"
    /\ attempt = 1
    /\ is_connected = FALSE
    /\ offline_mode = FALSE
    /\ reconnect_attempts = 0
    /\ failures = 0
    /\ delay = 0
    /\ sio_reconnecting = FALSE
    /\ tries = 0
    /\ since_check = 0
    /\ drops = 0
    /\ lost_calls = 0

\* ------------------------------------------------------------ AESCipher
\* The cipher in small: a byte has two bits, a block two bytes, a base64
\* character three bits; texts are ASCII, so encode/decode of utf-8 keep
\* the bytes.  The structure is the code's: a digest of the passphrase as
\* key, a random iv, PKCS7 padding, CBC chaining, iv + ciphertext in
\* base64, and no authentication tag.
Bytes == 0..3
block_size == 2

DEFAULT_AUTONOVA_KEY == "autonova-rmm-production-key-12345"
DEFAULT_ENCRYPTION_KEY == "autonova-rmm-default-key-change-in-production"

\* values the environment variable of a process holds: unset, or the
\* passphrase the operator chose
EnvValues == {None, "operator-passphrase"}

\* os.environ.get(name, default)
EnvironGet(value, default) == IF value = None THEN default ELSE value

\* hashlib.sha256(key.encode()).digest(): distinct passphrases, distinct keys
Sha256(passphrase) ==
    CASE passphrase = DEFAULT_AUTONOVA_KEY -> 3
      [] passphrase = DEFAULT_ENCRYPTION_KEY -> 7
      [] OTHER -> 11

\* AESCipher(Config.ENCRYPTION_KEY).key at the agent
AgentKey == Sha256(EnvironGet(agent_env, DEFAULT_AUTONOVA_KEY))

\* AESCipher(settings.ENCRYPTION_KEY).key at the service
ServiceKey == Sha256(EnvironGet(server_env, DEFAULT_ENCRYPTION_KEY))

KeyOf(side) == IF side = "agent" THEN AgentKey ELSE ServiceKey

Other(side) == IF side = "agent" THEN "service" ELSE "agent"

\* bitwise exclusive or of two bytes
XorByte(a, b) ==
    (((a % 2) + (b % 2)) % 2) + 2 * (((a \div 2) + (b \div 2)) % 2)

XorBlock(x, y) == [i \in 1..block_size |-> XorByte(x[i], y[i])]

\* a block as a number and back
BlockNum(x) == 4 * x[1] + x[2]
NumBlock(n) == <<n \div 4, n % 4>>

\* the block cipher under key k: a keyed permutation of the blocks and its
\* inverse
EncryptBlock(k, x) == NumBlock((5 * BlockNum(x) + k) % 16)
DecryptBlock(k, y) == NumBlock((13 * (BlockNum(y) + 16 - k)) % 16)

Blocks == {<<a, b>> : a \in Bytes, b \in Bytes}

\* Crypto.Util.Padding.pad: PKCS7
pad(data) ==
    LET n == block_size - (Len(data) % block_size)
    IN  data \o [i \in 1..n |-> n]

Failed == [st |-> "error", text |-> <<>>]
NoFrame == [st |-> "none", text |-> <<>>]
Ok(text) == [st |-> "ok", text |-> text]

\* Crypto.Util.Padding.unpad: PKCS7, ValueError on a wrong padding
unpad(data) ==
    IF Len(data) = 0 \/ Len(data) % block_size # 0 THEN Failed
    ELSE LET n == data[Len(data)]
         IN  IF n < 1 \/ n > block_size THEN Failed
             ELSE IF \E i \in (Len(data) - n + 1)..Len(data) : data[i] # n
                  THEN Failed
                  ELSE Ok(SubSeq(data, 1, Len(data) - n))

RECURSIVE CBCEncrypt(_, _, _)
\* AES.new(key, MODE_CBC, iv).encrypt: each block is xored with the
\* previous ciphertext block (the iv for the first) and then encrypted
CBCEncrypt(k, prev, data) ==
    IF data = <<>> THEN <<>>
    ELSE LET c == EncryptBlock(k, XorBlock(SubSeq(data, 1, block_size), prev))
         IN  c \o CBCEncrypt(k, c, SubSeq(data, block_size + 1, Len(data)))

RECURSIVE CBCDecrypt(_, _, _)
\* AES.new(key, MODE_CBC, iv).decrypt
CBCDecrypt(k, prev, data) ==
    IF data = <<>> THEN <<>>
    ELSE LET c == SubSeq(data, 1, block_size)
         IN  XorBlock(DecryptBlock(k, c), prev)
             \o CBCDecrypt(k, c, SubSeq(data, block_size + 1, Len(data)))

\* base64 in small: byte v is written as character v + 1; the characters
\* 0, 5, 6 and 7 are outside the alphabet
b64encode(raw) == [i \in 1..Len(raw) |-> raw[i] + 1]

InAlphabet(ch) == ch \in 1..4

\* b64decode: a character outside the alphabet is discarded and the rest
\* no longer has a whole number of groups (binascii.Error)
b64decode(s) ==
    IF \E i \in 1..Len(s) : ~InAlphabet(s[i]) THEN Failed
    ELSE Ok([i \in 1..Len(s) |-> s[i] - 1])

\* AESCipher.encrypt with the iv get_random_bytes returned
Encrypt(k, iv, data) == b64encode(iv \o CBCEncrypt(k, iv, pad(data)))

\* AESCipher.decrypt; any exception is the outcome "error"
Decrypt(k, encrypted_data) ==
    LET raw == b64decode(encrypted_data)
    IN  IF raw.st = "error" THEN Failed
        ELSE LET iv == SubSeq(raw.text, 1, block_size)
                 ciphertext == SubSeq(raw.text, block_size + 1, Len(raw.text))
             IN  IF Len(raw.text) < block_size
                    \/ Len(ciphertext) % block_size # 0
                 THEN Failed
                 ELSE unpad(CBCDecrypt(k, iv, ciphertext))

\* one bit of one character of the frame changed
FlipBit(s, pos, bit) ==
    LET ch == s[pos]
        b == (ch \div (2 ^ bit)) % 2
    IN  [s EXCEPT ![pos] = IF b = 1 THEN ch - 2 ^ bit ELSE ch + 2 ^ bit]

Texts == SeqsUpTo(Bytes, MaxPlain)

\* no frame under way
CipherIdle ==
    /\ agent_env = None
    /\ server_env = None
    /\ plain = <<>>
    /\ sender = "agent"
    /\ envelope = <<>>
    /\ corrupted = FALSE
    /\ received = NoFrame

\* both processes configured and started, one text to send
CipherInit ==
    /\ agent_env \in EnvValues
    /\ server_env \in EnvValues
    /\ plain \in Texts
    /\ sender \in {"agent", "service"}
    /\ envelope = <<>>
    /\ corrupted = FALSE
    /\ received = NoFrame

\* the sender encrypts the text
encrypt(iv) ==
    /\ envelope = <<>>
    /\ envelope' = Encrypt(KeyOf(sender), iv, plain)
    /\ UNCHANGED <<agent_env, server_env, plain, sender, corrupted, received>>
    /\ UNCHANGED <<svars, avars, mvars, lvars, xvars, hvars>>

\* the network changes one bit of the frame
corrupt(pos, bit) ==
    /\ envelope # <<>>
    /\ pos <= Len(envelope)
    /\ ~corrupted
    /\ received = NoFrame
    /\ envelope' = FlipBit(envelope, pos, bit)
    /\ corrupted' = TRUE
    /\ UNCHANGED <<agent_env, server_env, plain, sender, received>>
    /\ UNCHANGED <<svars, avars, mvars, lvars, xvars, hvars>>

\* the other side decrypts the frame
decrypt ==
    /\ envelope # <<>>
    /\ received = NoFrame
    /\ received' = Decrypt(KeyOf(Other(sender)), envelope)
    /\ UNCHANGED <<agent_env, server_env, plain, sender, envelope, corrupted>>
    /\ UNCHANGED <<svars, avars, mvars, lvars, xvars, hvars>>

\* ----------------------------------------------------------------- init
ControlInit ==
    /\ now = 0
    /\ next_sid = 1
    /\ open_sids = {}
    /\ connected_agents = <<>>
    /\ pending_commands = <<>>
    /\ next_cmd = 1
    /\ tasks = <<>>
    /\ emitted = {}
    /\ last = Op("init", 0, None, 0, None)
    /\ replaced = <<None, 0>>
    /\ transport_up = TRUE
    /\ handlers = <<>>
    /\ frames = [c \in 0..MaxInFlight |-> <<>>]

\* ============================================== SocketManager heartbeat
\* An emit raises exactly when the client is not connected; the library
\* runs the disconnect handler as it marks the client disconnected, so the
\* two happen in one step.  A handler suspended in an await resumes at any
\* later step.
ConnectionStates ==
    {"disconnected", "connecting", "connected", "reconnecting"}

\* SocketManager.__init__
HeartbeatIdle ==
    /\ conn_state = "disconnected"
    /\ sio_connected = FALSE
    /\ connecting = 0
    /\ stopping = FALSE
    /\ heartbeat_task = 0
    /\ running_tasks = {}
    /\ next_task = 1
    /\ wire = <<>>
    /\ stray_heartbeat = FALSE

SioEmit(w, frame) == IF Len(w) < MaxWire THEN Append(w, frame) ELSE w

KeepTask(live, task) == live

\* if self.heartbeat_task: self.heartbeat_task.cancel()
CancelTask(live, task) == live \ {task}

\* connect(): self.state = CONNECTING, then await self.sio.connect(...)
sm_connect ==
    /\ ~stopping
    /\ conn_state' = "connecting"
    /\ UNCHANGED <<sio_connected, connecting, stopping, heartbeat_task,
                   running_tasks, next_task, wire, stray_heartbeat>>
    /\ UNCHANGED <<svars, avars, mvars, lvars, xvars, cvars>>

\* sio.connect raises (refused, timed out, or the client is already
\* connected): on_connect_error and connect's except set DISCONNECTED
sm_connect_raises ==
    /\ conn_state = "connecting"
    /\ conn_state' = "disconnected"
    /\ UNCHANGED <<sio_connected, connecting, stopping, heartbeat_task,
                   running_tasks, next_task, wire, stray_heartbeat>>
    /\ UNCHANGED <<svars, avars, mvars, lvars, xvars, cvars>>

\* the connection is established (by connect() or by the client's own
\* reconnection) and on_connect runs up to its await of _send_auth
sm_on_connect ==
    /\ ~sio_connected
    /\ ~stopping
    /\ connecting < MaxConnecting
    /\ sio_connected' = TRUE
    /\ conn_state' = "connected"
    /\ connecting' = connecting + 1
    /\ wire' = <<>>
    /\ UNCHANGED <<stopping, heartbeat_task, running_tasks, next_task,
                   stray_heartbeat>>
    /\ UNCHANGED <<svars, avars, mvars, lvars, xvars, cvars>>

\* _send_auth returned: on_connect cancels the task it refers to and
\* creates the next one
sm_on_connect_auth ==
    /\ connecting > 0
    /\ sio_connected
    /\ next_task <= MaxTasks
    /\ connecting' = connecting - 1
    /\ wire' = SioEmit(wire, "auth")
    /\ running_tasks' = CancelTask(running_tasks, heartbeat_task)
                            \cup {next_task}
    /\ heartbeat_task' = next_task
    /\ next_task' = next_task + 1
    /\ UNCHANGED <<conn_state, sio_connected, stopping, stray_heartbeat>>
    /\ UNCHANGED <<svars, avars, mvars, lvars, xvars, cvars>>

\* _send_auth raised: on_connect ends without reaching the task
sm_on_connect_raises ==
    /\ connecting > 0
    /\ ~sio_connected
    /\ connecting' = connecting - 1
    /\ UNCHANGED <<conn_state, sio_connected, stopping, heartbeat_task,
                   running_tasks, next_task, wire, stray_heartbeat>>
    /\ UNCHANGED <<svars, avars, mvars, lvars, xvars, cvars>>

\* on_disconnect
sm_on_disconnect ==
    /\ sio_connected
    /\ ~stopping
    /\ sio_connected' = FALSE
    /\ conn_state' = "disconnected"
    /\ running_tasks' = CancelTask(running_tasks, heartbeat_task)
    /\ UNCHANGED <<connecting, stopping, heartbeat_task, next_task, wire,
                   stray_heartbeat>>
    /\ UNCHANGED <<svars, avars, mvars, lvars, xvars, cvars>>

HeartbeatAlways(s) == TRUE

\* _heartbeat_loop: if self.state == ConnectionState.CONNECTED
HeartbeatDue(s) == s = "connected"

\* one turn of a running _heartbeat_loop after its sleep; an emit that
\* raises is logged and the loop goes on
heartbeat_loop(task) ==
    /\ task \in running_tasks
    /\ HeartbeatDue(conn_state)
    /\ sio_connected
    /\ wire' = SioEmit(wire, "heartbeat")
    /\ stray_heartbeat' = (stray_heartbeat \/ conn_state # "connected")
    /\ UNCHANGED <<conn_state, sio_connected, connecting, stopping,
                   heartbeat_task, running_tasks, next_task>>
    /\ UNCHANGED <<svars, avars, mvars, lvars, xvars, cvars>>

\* disconnect(): cancels the task, then awaits sio.disconnect()
sm_disconnect ==
    /\ ~stopping
    /\ stopping' = TRUE
    /\ running_tasks' = CancelTask(running_tasks, heartbeat_task)
    /\ UNCHANGED <<conn_state, sio_connected, connecting, heartbeat_task,
                   next_task, wire, stray_heartbeat>>
    /\ UNCHANGED <<svars, avars, mvars, lvars, xvars, cvars>>

\* sio.disconnect() returned (on_disconnect ran if the client was
\* connected); disconnect() sets DISCONNECTED
sm_disconnected ==
    /\ stopping
    /\ stopping' = FALSE
    /\ sio_connected' = FALSE
    /\ conn_state' = "disconnected"
    /\ running_tasks' = CancelTask(running_tasks, heartbeat_task)
    /\ UNCHANGED <<connecting, heartbeat_task, next_task, wire,
                   stray_heartbeat>>
    /\ UNCHANGED <<svars, avars, mvars, lvars, xvars, cvars>>

HeartbeatNext ==
    \/ sm_connect
    \/ sm_connect_raises
    \/ sm_on_connect
    \/ sm_on_connect_auth
    \/ sm_on_connect_raises
    \/ sm_on_disconnect
    \/ \E task \in 1..MaxTasks : heartbeat_loop(task)
    \/ sm_disconnect
    \/ sm_disconnected

SInit ==
    ControlInit /\ ManagerInit /\ LoopInit /\ CipherIdle /\ HeartbeatIdle

SpecHeartbeat == SInit /\ [][HeartbeatNext]_vars

RegistryNext ==
    \/ on_connect
    \/ \E sid \in Sids : on_disconnect(sid)
    \/ \E sid \in Sids, a \in AgentIds : on_auth(sid, a)
    \/ \E sid \in Sids : on_auth_rejected(sid)
    \/ \E sid \in Sids, a \in AgentIds : on_heartbeat(sid, a)
    \/ Tick

\* the dispatcher never reads last_heartbeat, so heartbeats are left to Spec
DispatchNext ==
    \/ on_connect
    \/ \E sid \in Sids : on_disconnect(sid)
    \/ \E a \in AgentIds : on_auth(SidOf(a), a)
    \/ Tick
    \/ \E a \in AgentIds, r \in Requests :
           send_command(a, r.type, r.confirm)
    \/ \E c \in CmdIds : transmit_start(c)
    \/ \E c \in CmdIds : transmit_sent(c)
    \/ \E c \in CmdIds : transmit_failed(c)
    \/ \E sid \in Sids, c \in CmdIds, a \in AgentIds, d \in ProgressData :
           on_progress(sid, c, a, d)
    \/ \E sid \in Sids, c \in CmdIds, a \in AgentIds, d \in ResultData :
           on_result(sid, c, a, d)
    \/ \E sid \in Sids, c \in CmdIds, t \in ErrorText : on_error(sid, c, t)

Spec == SInit /\ [][RegistryNext]_vars

SpecDispatch == SInit /\ [][DispatchNext]_vars
\* progress frames for commands that were transmitted
ProgressNext ==
    \/ on_connect
    \/ \E a \in AgentIds : on_auth(SidOf(a), a)
    \/ \E a \in AgentIds : send_command(a, "health_check", "absent")
    \/ \E c \in CmdIds : transmit_start(c)
    \/ \E c \in CmdIds : transmit_sent(c)
    \/ \E sid \in Sids, c \in CmdIds, a \in AgentIds, d \in ProgressData :
           on_progress(sid, c, a, d)

SpecProgress == SInit /\ [][ProgressNext]_vars

\* ------------------------------------------------------------- agent side
AgentCmdIds == 1..MaxInFlight

Frame(kind, command_id, seq) ==
    [kind |-> kind, command_id |-> command_id, seq |-> seq]

\* frames' after emit wrote frame f
Emit(f) == [frames EXCEPT ![f.command_id] = Append(@, f)]

TerminalFramesOf(c) ==
    {i \in 1..Len(frames[c]) : frames[c][i].kind \in {"result", "error"}}

\* on_command: the frame decrypts and parses, command_handler is called
\* (create_socket_client always installs CommandExecutor.execute)
on_command(c) ==
    /\ transport_up
    /\ c \notin DOMAIN handlers
    /\ handlers' = (c :> [pc |-> "executing", produced |-> 0,
                          outcome |-> None, serializable |-> TRUE]) @@ handlers
    /\ UNCHANGED <<transport_up, frames>>
    /\ UNCHANGED <<svars, mvars, lvars, ovars>>

\* send_error: the error frame is emitted unless emit raises
send_error(command_id) ==
    IF transport_up
    THEN Emit(Frame("error", command_id, 0))
    ELSE frames

\* on_command: decrypt or json.loads raises, `command` is unbound,
\* send_error(None, ...)
on_command_undecryptable ==
    /\ transport_up
    /\ Len(frames[0]) < MaxBadFrames
    /\ frames' = send_error(0)
    /\ UNCHANGED <<transport_up, handlers>>
    /\ UNCHANGED <<svars, mvars, lvars, ovars>>

\* a callback started as a detached task instead of being awaited
CallbackDetached(h) == h.produced < MaxEmits

\* the collaborator is inside an awaited progress_callback
CallbackAwaited(h) == h.pc = "executing" /\ h.produced < MaxEmits

\* progress_callback -> send_progress; an emit that raises propagates through
\* the collaborator into execute's except, which returns the error dict
progress_callback(c) ==
    /\ c \in DOMAIN handlers
    /\ CallbackAwaited(handlers[c])
    /\ IF transport_up
       THEN /\ frames' = Emit(Frame("progress", c, handlers[c].produced + 1))
            /\ handlers' = [handlers EXCEPT ![c].produced = @ + 1]
       ELSE /\ frames' = frames
            /\ handlers' = [handlers EXCEPT ![c].pc = "responding",
                                            ![c].outcome = "raised"]
    /\ UNCHANGED transport_up
    /\ UNCHANGED <<svars, mvars, lvars, ovars>>

\* execute: the collaborator returned its result
execute_returns(c, serializable) ==
    /\ c \in DOMAIN handlers
    /\ handlers[c].pc = "executing"
    /\ handlers' = [handlers EXCEPT ![c].pc = "responding",
                                    ![c].outcome = "returned",
                                    ![c].serializable = serializable]
    /\ UNCHANGED <<transport_up, frames>>
    /\ UNCHANGED <<svars, mvars, lvars, ovars>>

\* execute: the collaborator raised; except returns {"error", success False}
execute_raises(c) ==
    /\ c \in DOMAIN handlers
    /\ handlers[c].pc = "executing"
    /\ handlers' = [handlers EXCEPT ![c].pc = "responding",
                                    ![c].outcome = "raised"]
    /\ UNCHANGED <<transport_up, frames>>
    /\ UNCHANGED <<svars, mvars, lvars, ovars>>

\* on_command after the handler returned: send_response, and send_error when
\* json.dumps or emit raised in it
send_response(c) ==
    /\ c \in DOMAIN handlers
    /\ handlers[c].pc = "responding"
    /\ frames' = IF handlers[c].serializable /\ transport_up
                 THEN Emit(Frame("result", c, 0))
                 ELSE send_error(c)
    /\ handlers' = [handlers EXCEPT ![c].pc = "done"]
    /\ UNCHANGED transport_up
    /\ UNCHANGED <<svars, mvars, lvars, ovars>>

transport_lost ==
    /\ transport_up
    /\ transport_up' = FALSE
    /\ UNCHANGED <<handlers, frames>>
    /\ UNCHANGED <<svars, mvars, lvars, ovars>>

transport_restored ==
    /\ ~transport_up
    /\ transport_up' = TRUE
    /\ UNCHANGED <<handlers, frames>>
    /\ UNCHANGED <<svars, mvars, lvars, ovars>>

AgentNext ==
    \/ \E c \in AgentCmdIds : on_command(c)
    \/ on_command_undecryptable
    \/ \E c \in AgentCmdIds : progress_callback(c)
    \/ \E c \in AgentCmdIds, ser \in BOOLEAN : execute_returns(c, ser)
    \/ \E c \in AgentCmdIds : execute_raises(c)
    \/ \E c \in AgentCmdIds : send_response(c)
    \/ transport_lost
    \/ transport_restored

SpecAgent == SInit /\ [][AgentNext]_vars

\* ================================================== AutonomousManager
\* One manager operation runs at a time (its callers await each one); the
\* process can stop at any point of an operation.  Fields never read
\* (queued_at, completed_at, result, error, reason, params of an action)
\* and completed_actions are left out; executor results are JSON values.

NewAction(id, type, priority) ==
    [id |-> id, type |-> type, priority |-> priority, status |-> "pending"]

\* list.sort(key=priority) leaves the list as it is
NoSort(q) == q

\* insert a behind every element whose priority is not larger
InsertSorted(q, a) ==
    LET k == Cardinality({i \in 1..Len(q) : q[i].priority <= a.priority})
    IN SubSeq(q, 1, k) \o <<a>> \o SubSeq(q, k + 1, Len(q))

RECURSIVE StableSort(_)
StableSort(q) ==
    IF q = <<>> THEN <<>>
    ELSE InsertSorted(StableSort(SubSeq(q, 1, Len(q) - 1)), q[Len(q)])

\* action_queue.sort(key=lambda x: x["priority"]): stable, ascending
SortByPriority(q) == StableSort(q)

IsPending(a) == a.status = "pending"

RECURSIVE Reverse(_)
Reverse(q) ==
    IF q = <<>> THEN <<>> ELSE Append(Reverse(Tail(q)), Head(q))

\* the pending actions, last one first
PendingActionsReversed(q) == Reverse(SelectSeq(q, IsPending))

\* [a for a in self.action_queue if a["status"] == "pending"]
PendingActions(q) == SelectSeq(q, IsPending)

\* action["status"] = status, on the dict shared with action_queue
SetStatus(q, id, status) ==
    [i \in 1..Len(q) |->
        IF q[i].id = id THEN [q[i] EXCEPT !.status = status] ELSE q[i]]

Ids(q) == {q[i].id : i \in 1..Len(q)}

\* the mock command execute_autonomous_actions builds for an action
Command(a) == [id |-> a.id, type |-> a.type]

SyncItem(data_type, data) == [type |-> data_type, data |-> data]

queue_action(type, priority) ==
    /\ mop = Idle
    /\ next_action <= MaxActions
    /\ action_queue' = SortByPriority(
           Append(action_queue, NewAction(next_action, type, priority)))
    /\ next_action' = next_action + 1
    /\ mop' = [Idle EXCEPT !.op = "queue_action", !.pc = "save",
                           !.after = "return", !.id = next_action]
    /\ UNCHANGED <<pending_sync, queue_file, sync_file, owed>>
    /\ UNCHANGED <<state, retry_count, dvars, lvars, svars, avars, ovars>>

queue_action_return ==
    /\ mop.op = "queue_action"
    /\ mop.pc = "return"
    /\ owed' = owed \cup {mop.id}
    /\ mop' = Idle
    /\ UNCHANGED <<action_queue, pending_sync, queue_file, sync_file,
                   next_action>>
    /\ UNCHANGED <<state, retry_count, dvars, lvars, svars, avars, ovars>>

\* _save_persisted_data: open(queue_file, 'w') truncates the file
save_open ==
    /\ mop.pc = "save"
    /\ queue_file' = Partial
    /\ mop' = [mop EXCEPT !.pc = "save_queue"]
    /\ UNCHANGED <<action_queue, pending_sync, sync_file, next_action, owed>>
    /\ UNCHANGED <<state, retry_count, dvars, lvars, svars, avars, ovars>>

\* json.dump(action_queue) completes; open(sync_file, 'w') truncates
save_queue ==
    /\ mop.pc = "save_queue"
    /\ queue_file' = Json(action_queue)
    /\ sync_file' = Partial
    /\ mop' = [mop EXCEPT !.pc = "save_sync"]
    /\ UNCHANGED <<action_queue, pending_sync, next_action, owed>>
    /\ UNCHANGED <<state, retry_count, dvars, lvars, svars, avars, ovars>>

\* json.dump(pending_sync) completes; the caller goes on
save_sync ==
    /\ mop.pc = "save_sync"
    /\ sync_file' = Json(pending_sync)
    /\ mop' = [mop EXCEPT !.pc = mop.after]
    /\ UNCHANGED <<action_queue, pending_sync, queue_file, next_action, owed>>
    /\ UNCHANGED <<state, retry_count, dvars, lvars, svars, avars, ovars>>

\* execute_autonomous_actions up to the loop
pass_begin ==
    /\ mop = Idle
    /\ Len(pending_sync) < MaxSync
    /\ state' = "autonomous"
    /\ mop' = [Idle EXCEPT !.op = "pass", !.pc = "loop",
                           !.start = PendingActions(action_queue),
                           !.sync0 = Len(pending_sync),
                           !.next = 1]
    /\ UNCHANGED <<action_queue, pending_sync, queue_file, sync_file,
                   next_action, owed>>
    /\ UNCHANGED <<retry_count, dvars, lvars, svars, avars, ovars>>

\* executor.execute(command) returned
executor_returns ==
    /\ mop.op = "pass"
    /\ mop.pc = "loop"
    /\ mop.next <= Len(mop.start)
    /\ LET a == mop.start[mop.next] IN
       /\ action_queue' = SetStatus(action_queue, a.id, "completed")
       /\ mop' = [mop EXCEPT !.calls = Append(@, Command(a)),
                             !.executed = Append(@, a.id),
                             !.next = @ + 1]
    /\ UNCHANGED <<pending_sync, queue_file, sync_file, next_action, owed>>
    /\ UNCHANGED <<state, retry_count, dvars, lvars, svars, avars, ovars>>

\* the loop leaves the batch at the first failure
AbortBatch(m) == Len(m.start) + 1

\* the except branch ends the iteration; the for loop takes the next action
AfterRaise(m) == m.next + 1

\* executor.execute(command) raised
executor_raises ==
    /\ mop.op = "pass"
    /\ mop.pc = "loop"
    /\ mop.next <= Len(mop.start)
    /\ LET a == mop.start[mop.next] IN
       /\ action_queue' = SetStatus(action_queue, a.id, "failed")
       /\ mop' = [mop EXCEPT !.calls = Append(@, Command(a)),
                             !.failed = Append(@, a.id),
                             !.next = AfterRaise(mop)]
    /\ UNCHANGED <<pending_sync, queue_file, sync_file, next_action, owed>>
    /\ UNCHANGED <<state, retry_count, dvars, lvars, svars, avars, ovars>>

\* the loop is over: drop what is not pending, then save
pass_cleanup ==
    /\ mop.op = "pass"
    /\ mop.pc = "loop"
    /\ mop.next > Len(mop.start)
    /\ action_queue' = PendingActions(action_queue)
    /\ owed' = owed \cap Ids(action_queue')
    /\ mop' = [mop EXCEPT !.pc = "save", !.after = "summary"]
    /\ UNCHANGED <<pending_sync, queue_file, sync_file, next_action>>
    /\ UNCHANGED <<state, retry_count, dvars, lvars, svars, avars, ovars>>

\* queue_for_sync("autonomous_results", summary)
pass_summary ==
    /\ mop.op = "pass"
    /\ mop.pc = "summary"
    /\ pending_sync' = Append(pending_sync,
           SyncItem("autonomous_results",
                    [executed_count |-> Len(mop.executed),
                     failed_count |-> Len(mop.failed),
                     actions |-> mop.executed \o mop.failed]))
    /\ mop' = [mop EXCEPT !.pc = "save", !.after = "return"]
    /\ UNCHANGED <<action_queue, queue_file, sync_file, next_action, owed>>
    /\ UNCHANGED <<state, retry_count, dvars, lvars, svars, avars, ovars>>

pass_return ==
    /\ mop.op = "pass"
    /\ mop.pc = "return"
    /\ mop' = Idle
    /\ UNCHANGED <<action_queue, pending_sync, queue_file, sync_file,
                   next_action, owed>>
    /\ UNCHANGED <<state, retry_count, dvars, lvars, svars, avars, ovars>>

\* queue_for_sync called on its own (a scan the loop hands over)
queue_for_sync(data_type) ==
    /\ mop = Idle
    /\ Len(pending_sync) < MaxSync
    /\ pending_sync' = Append(pending_sync, SyncItem(data_type, EmptyScan))
    /\ mop' = [Idle EXCEPT !.op = "queue_for_sync", !.pc = "save",
                           !.after = "return",
                           !.sync0 = Len(pending_sync)]
    /\ UNCHANGED <<action_queue, queue_file, sync_file, next_action, owed>>
    /\ UNCHANGED <<state, retry_count, dvars, lvars, svars, avars, ovars>>

queue_for_sync_return ==
    /\ mop.op = "queue_for_sync"
    /\ mop.pc = "return"
    /\ mop' = Idle
    /\ UNCHANGED <<action_queue, pending_sync, queue_file, sync_file,
                   next_action, owed>>
    /\ UNCHANGED <<state, retry_count, dvars, lvars, svars, avars, ovars>>

SaveErrorPropagates(m) == "raised"

\* except Exception as e: logger.error(...); _save_persisted_data returns
\* and the caller goes on
AfterSaveError(m) == m.after

\* mkdir or open(queue_file, 'w') raises: no file is touched
save_open_raises ==
    /\ mop.pc = "save"
    /\ mop' = [mop EXCEPT !.pc = AfterSaveError(mop)]
    /\ UNCHANGED <<action_queue, pending_sync, queue_file, sync_file,
                   next_action, owed>>
    /\ UNCHANGED <<state, retry_count, dvars, lvars, svars, avars, ovars>>

\* json.dump(action_queue) raises part way (written = FALSE), or it
\* completes and open(sync_file, 'w') raises (written = TRUE)
save_queue_raises(written) ==
    /\ mop.pc = "save_queue"
    /\ queue_file' = IF written THEN Json(action_queue) ELSE Partial
    /\ mop' = [mop EXCEPT !.pc = AfterSaveError(mop)]
    /\ UNCHANGED <<action_queue, pending_sync, sync_file, next_action, owed>>
    /\ UNCHANGED <<state, retry_count, dvars, lvars, svars, avars, ovars>>

\* json.dump(pending_sync) raises part way
save_sync_raises ==
    /\ mop.pc = "save_sync"
    /\ mop' = [mop EXCEPT !.pc = AfterSaveError(mop)]
    /\ UNCHANGED <<action_queue, pending_sync, queue_file, sync_file,
                   next_action, owed>>
    /\ UNCHANGED <<state, retry_count, dvars, lvars, svars, avars, ovars>>

\* the process stops and is started again: __init__ reloads the files
crash_restart ==
    /\ state' = "disconnected"
    /\ retry_count' = 0
    /\ action_queue' = LoadedQueue
    /\ pending_sync' = LoadedSync
    /\ mop' = Idle
    /\ last_scan_results' = EmptyScan
    /\ recommendations' = <<>>
    /\ UNCHANGED <<queue_file, sync_file, next_action, owed, scan_in,
                   interval>>
    /\ UNCHANGED <<lvars, svars, avars, ovars>>

QueueNext ==
    \/ \E in \in ActionInputs : queue_action(in.type, in.priority)
    \/ queue_action_return
    \/ save_open
    \/ save_queue
    \/ save_sync
    \/ pass_begin
    \/ executor_returns
    \/ executor_raises
    \/ pass_cleanup
    \/ pass_summary
    \/ pass_return
    \/ crash_restart

SpecQueue == SInit /\ [][QueueNext]_vars

\* the manager on a disk whose writes may fail, in a process that keeps
\* running
WriteFailNext ==
    \/ \E in \in ActionInputs : queue_action(in.type, in.priority)
    \/ queue_action_return
    \/ queue_for_sync("scan_results")
    \/ queue_for_sync_return
    \/ save_open
    \/ save_queue
    \/ save_sync
    \/ save_open_raises
    \/ \E written \in BOOLEAN : save_queue_raises(written)
    \/ save_sync_raises
    \/ pass_begin
    \/ executor_returns
    \/ executor_raises
    \/ pass_cleanup
    \/ pass_summary
    \/ pass_return

SpecWriteFail == SInit /\ [][WriteFailNext]_vars

\* ------------------------------------------------------ decision engine
Rec(action, priority) == [action |-> action, priority |-> priority]

\* scan_results.get("score", 100)
ScoreOf(scan) == IF scan.has_score THEN scan.score ELSE 100

\* two independent tests on the score
ScoreRecsBoth(score) ==
    (IF score < 40 THEN <<Rec("full_repair", CRITICAL)>> ELSE <<>>)
    \o (IF score < 60 THEN <<Rec("deep_clean", HIGH)>> ELSE <<>>)

\* if score < 40 ... elif score < 60 ...
ScoreRecs(score) ==
    IF score < 40 THEN <<Rec("full_repair", CRITICAL)>>
    ELSE IF score < 60 THEN <<Rec("deep_clean", HIGH)>>
    ELSE <<>>

ThreatRec(threat_type) ==
    IF threat_type = "suspicious_process"
    THEN <<Rec("kill_process", CRITICAL)>>
    ELSE IF threat_type = "suspicious_connection"
    THEN <<Rec("block_connection", CRITICAL)>>
    ELSE <<>>

\* for threat in threats
RECURSIVE ThreatRecs(_)
ThreatRecs(threats) ==
    IF threats = <<>> THEN <<>>
    ELSE ThreatRec(Head(threats)) \o ThreatRecs(Tail(threats))

IssueRec(issue) ==
    IF issue.type = "disk" /\ issue.severity = "high"
    THEN <<Rec("clean_disk", HIGH)>>
    ELSE IF issue.type = "memory" /\ issue.severity = "high"
    THEN <<Rec("free_memory", HIGH)>>
    ELSE IF issue.type = "security"
    THEN <<Rec("fix_security", CRITICAL)>>
    ELSE <<>>

\* for issue in issues
RECURSIVE IssueRecs(_)
IssueRecs(issues) ==
    IF issues = <<>> THEN <<>>
    ELSE IssueRec(Head(issues)) \o IssueRecs(Tail(issues))

\* the issue rules run before the threat rules
RecommendIssuesFirst(scan) ==
    ScoreRecs(ScoreOf(scan)) \o IssueRecs(scan.issues_found)
        \o ThreatRecs(scan.threats_found)

\* the list analyze_and_decide builds and returns
Recommend(scan) ==
    ScoreRecs(ScoreOf(scan)) \o ThreatRecs(scan.threats_found)
        \o IssueRecs(scan.issues_found)

analyze_and_decide ==
    /\ mop = Idle
    /\ last_scan_results' = scan_in
    /\ recommendations' = Recommend(scan_in)
    /\ mop' = [Idle EXCEPT !.op = "analyze_and_decide", !.pc = "return"]
    /\ UNCHANGED <<action_queue, pending_sync, queue_file, sync_file,
                   next_action, owed, scan_in, interval>>
    /\ UNCHANGED <<state, retry_count, lvars, svars, avars, ovars>>

analyze_and_decide_return ==
    /\ mop.op = "analyze_and_decide"
    /\ mop.pc = "return"
    /\ mop' = Idle
    /\ UNCHANGED <<action_queue, pending_sync, queue_file, sync_file,
                   next_action, owed, dvars>>
    /\ UNCHANGED <<state, retry_count, lvars, svars, avars, ovars>>

\* the interval without the cap
RetryIntervalUncapped(count) == retry_interval * (2 ^ count)

\* min(retry_interval * 2 ** retry_count, max_retry_interval)
RetryIntervalAt(count) ==
    Min(retry_interval * (2 ^ count), max_retry_interval)

get_retry_interval == RetryIntervalAt(retry_count)

\* a caller asks for the interval
get_retry_interval_call ==
    /\ interval' = get_retry_interval
    /\ UNCHANGED <<qvars, scan_in, last_scan_results, recommendations>>
    /\ UNCHANGED <<state, retry_count, lvars, svars, avars, ovars>>

\* the arguments are drawn here: the scan result handed to
\* analyze_and_decide and the value of the retry_count attribute
DecideInit ==
    /\ ControlInit
    /\ LoopInit
    /\ CipherIdle
    /\ HeartbeatIdle
    /\ QueueInit
    /\ state = "disconnected"
    /\ retry_count \in 0..MaxRetryCount
    /\ scan_in \in ScanInputs
    /\ last_scan_results = EmptyScan
    /\ recommendations = <<>>
    /\ interval = 0

DecideNext ==
    \/ analyze_and_decide
    \/ analyze_and_decide_return
    \/ get_retry_interval_call

SpecDecide == DecideInit /\ [][DecideNext]_vars

\* ------------------------------------------- connection loss / restore
\* connection_restored up to the loop over pending_sync
BeginRestored ==
    /\ state' = "connected"
    /\ retry_count' = 0
    /\ mop' = [Idle EXCEPT !.op = "connection_restored", !.pc = "sync",
                           !.sync0 = Len(pending_sync), !.next = 1]

\* socket_manager.send_log returned for the item at mop.next
restored_send_ok ==
    /\ mop.op = "connection_restored"
    /\ mop.pc = "sync"
    /\ mop.next <= Len(pending_sync)
    /\ is_connected
    /\ mop' = [mop EXCEPT !.executed = Append(@, mop.next), !.next = @ + 1]
    /\ UNCHANGED <<action_queue, pending_sync, queue_file, sync_file,
                   next_action, owed>>
    /\ UNCHANGED <<state, retry_count, dvars, lvars, svars, avars, ovars>>

\* send_log raised (encrypt or emit); the except branch logs it
restored_send_fails ==
    /\ mop.op = "connection_restored"
    /\ mop.pc = "sync"
    /\ mop.next <= Len(pending_sync)
    /\ mop' = [mop EXCEPT !.failed = Append(@, mop.next), !.next = @ + 1]
    /\ UNCHANGED <<action_queue, pending_sync, queue_file, sync_file,
                   next_action, owed>>
    /\ UNCHANGED <<state, retry_count, dvars, lvars, svars, avars, ovars>>

\* the items whose send failed stay queued
KeepFailed(q, failed) == [k \in 1..Len(failed) |-> q[failed[k]]]

\* self.pending_sync = []
ClearedSync(q, failed) == <<>>

\* the loop is over: clear the queue, then save
restored_clear ==
    /\ mop.op = "connection_restored"
    /\ mop.pc = "sync"
    /\ mop.next > Len(pending_sync)
    /\ pending_sync' = ClearedSync(pending_sync, mop.failed)
    /\ mop' = [mop EXCEPT !.pc = "save", !.after = "return"]
    /\ UNCHANGED <<action_queue, queue_file, sync_file, next_action, owed>>
    /\ UNCHANGED <<state, retry_count, dvars, lvars, svars, avars, ovars>>

\* ------------------------------------------------- AutonovaAgent loop
max_initial_attempts == 5
base_reconnect_delay == 5
max_reconnect_delay == 120
connection_timeout == 30

\* seconds a failing connect() takes: refused at once, or cut off by
\* wait_for after connection_timeout
ConnectSeconds == {0, connection_timeout}

\* timedelta.seconds: the seconds field of a timedelta, days left out
TimedeltaSeconds(e) == e % (24 * 3600)

\* _connect_with_retry: delay before the next start-up attempt
StartupDelay(a) == Min(base_reconnect_delay * a, 30)

ReconnectDelayLinear(n) == Min(base_reconnect_delay * n, max_reconnect_delay)

\* _main_loop: delay slept before reconnection attempt n
ReconnectDelay(n) ==
    Min(base_reconnect_delay * (2 ^ Min(n - 1, 5)), max_reconnect_delay)

StartupGivesUp == "stopped"

\* start: position after _connect_with_retry has returned False
AfterStartupFailed == "main_loop"

\* _connect_with_retry: connect raised or timed out; after the last
\* attempt offline_mode is set and connection_lost is called
start_attempt_failed ==
    /\ lpc = "connect_with_retry"
    /\ failures' = failures + 1
    /\ tries' = 1 - tries
    /\ IF attempt < max_initial_attempts
       THEN /\ attempt' = attempt + 1
            /\ delay' = StartupDelay(attempt)
            /\ UNCHANGED <<lpc, offline_mode, state, retry_count,
                           lost_calls>>
       ELSE /\ offline_mode' = TRUE
            /\ state' = "disconnected"
            /\ retry_count' = 0
            /\ lost_calls' = lost_calls + 1
            /\ lpc' = AfterStartupFailed
            /\ UNCHANGED <<attempt, delay>>
    /\ UNCHANGED <<is_connected, reconnect_attempts, sio_reconnecting,
                   since_check>>
    /\ UNCHANGED drops
    /\ UNCHANGED <<qvars, dvars, svars, avars, cvars, hvars>>

\* _connect_with_retry: connect returned; connection_restored is awaited
start_attempt_ok ==
    /\ lpc = "connect_with_retry"
    /\ is_connected' = TRUE
    /\ failures' = 0
    /\ tries' = 1 - tries
    /\ BeginRestored
    /\ lpc' = "connect_with_retry_restored"
    /\ UNCHANGED <<attempt, offline_mode, reconnect_attempts, delay,
                   sio_reconnecting, since_check>>
    /\ UNCHANGED <<action_queue, pending_sync, queue_file, sync_file,
                   next_action, owed>>
    /\ UNCHANGED <<drops, lost_calls>>
    /\ UNCHANGED <<dvars, svars, avars, cvars, hvars>>

\* connection_restored returned to _connect_with_retry
start_restored ==
    /\ lpc = "connect_with_retry_restored"
    /\ mop.op = "connection_restored"
    /\ mop.pc = "return"
    /\ mop' = Idle
    /\ offline_mode' = FALSE
    /\ lpc' = "main_loop"
    /\ UNCHANGED <<attempt, is_connected, reconnect_attempts, failures>>
    /\ UNCHANGED <<action_queue, pending_sync, queue_file, sync_file,
                   next_action, owed>>
    /\ UNCHANGED <<state, retry_count, dvars, svars, avars, ovars>>

\* the transport goes down; the client starts its reconnection task
connection_drops ==
    /\ is_connected
    /\ drops < MaxDrops
    /\ drops' = drops + 1
    /\ lost_calls' = 0
    /\ is_connected' = FALSE
    /\ sio_reconnecting' = TRUE
    /\ UNCHANGED <<lpc, attempt, offline_mode, reconnect_attempts, failures,
                   delay, tries, since_check>>
    /\ UNCHANGED <<mvars, svars, avars, cvars, hvars>>

\* socketio.AsyncClient(reconnection=True): the client's reconnection task
\* re-establishes the transport; on_connect sets the state and
\* authenticates.  Nothing of AutonovaAgent runs.
auto_reconnect ==
    /\ sio_reconnecting
    /\ ~is_connected
    /\ is_connected' = TRUE
    /\ sio_reconnecting' = FALSE
    /\ failures' = 0
    /\ UNCHANGED <<lpc, attempt, offline_mode, reconnect_attempts, delay,
                   tries, since_check>>
    /\ UNCHANGED <<drops, lost_calls>>
    /\ UNCHANGED <<mvars, svars, avars, cvars, hvars>>

\* _main_loop, not connected: connection_lost on the first iteration of
\* an outage, then the attempt counter, the delay and the sleep
LoopPreamble ==
    /\ lpc = "main_loop"
    /\ ~is_connected
    /\ reconnect_attempts < MaxAttempts
    /\ since_check + max_reconnect_delay + connection_timeout <= MaxClock
    /\ lost_calls' = IF offline_mode THEN lost_calls ELSE lost_calls + 1
    /\ offline_mode' = TRUE
    /\ reconnect_attempts' = reconnect_attempts + 1
    /\ delay' = ReconnectDelay(reconnect_attempts')
    /\ tries' = 1 - tries

\* _main_loop: the reconnection attempt failed after c seconds; the offline
\* check runs from the 10th attempt on when the seconds field of the time
\* since the last check is more than 300
reconnect_failed(c) ==
    /\ LoopPreamble
    /\ state' = IF offline_mode THEN state ELSE "disconnected"
    /\ retry_count' = IF offline_mode THEN retry_count ELSE 0
    /\ failures' = failures + 1
    /\ since_check' = since_check + delay' + c
    /\ lpc' = IF reconnect_attempts' >= 10
                 /\ TimedeltaSeconds(since_check') > 300
              THEN "autonomous_check" ELSE "main_loop"
    /\ UNCHANGED <<attempt, is_connected, sio_reconnecting>>
    /\ UNCHANGED drops
    /\ UNCHANGED <<qvars, dvars, svars, avars, cvars, hvars>>

CheckExecutesActions == "pass"

\* _run_autonomous_check: the manager operation it ends with; the
\* recommendations are queued for sync and not executed
CheckOperation == "queue_for_sync"

CheckSyncWithActions(sync, scan) ==
    Append(Append(sync, SyncItem("scan_results", scan)),
           SyncItem("autonomous_results", Recommend(scan)))

\* auto.queue_for_sync("scan_results", scan_results): the one thing the
\* check queues
CheckSyncQueue(sync, scan) == Append(sync, SyncItem("scan_results", scan))

\* _run_autonomous_check: scan, analyze_and_decide, queue_for_sync
run_autonomous_check(scan) ==
    /\ lpc = "autonomous_check"
    /\ mop = Idle
    /\ Len(pending_sync) < MaxSync
    /\ last_scan_results' = scan
    /\ recommendations' = Recommend(scan)
    /\ pending_sync' = CheckSyncQueue(pending_sync, scan)
    /\ mop' = [Idle EXCEPT !.op = CheckOperation, !.pc = "save",
                           !.after = "return"]
    /\ UNCHANGED <<action_queue, queue_file, sync_file, next_action, owed,
                   scan_in, interval>>
    /\ UNCHANGED <<state, retry_count, lvars, svars, avars, ovars>>

\* _run_autonomous_check: run_full_scan raised; the except branch logs it;
\* back in the loop last_autonomous_check is set
autonomous_check_fails ==
    /\ lpc = "autonomous_check"
    /\ mop = Idle
    /\ lpc' = "main_loop"
    /\ since_check' = 0
    /\ UNCHANGED <<attempt, is_connected, offline_mode, reconnect_attempts,
                   failures, delay, sio_reconnecting, tries>>
    /\ UNCHANGED <<drops, lost_calls>>
    /\ UNCHANGED <<mvars, svars, avars, cvars, hvars>>

\* queue_for_sync returned to _run_autonomous_check and that to the loop,
\* which sets last_autonomous_check
autonomous_check_done ==
    /\ lpc = "autonomous_check"
    /\ mop.op = "queue_for_sync"
    /\ mop.pc = "return"
    /\ mop' = Idle
    /\ lpc' = "main_loop"
    /\ since_check' = 0
    /\ UNCHANGED <<attempt, is_connected, offline_mode, reconnect_attempts,
                   failures, delay, sio_reconnecting, tries>>
    /\ UNCHANGED <<action_queue, pending_sync, queue_file, sync_file,
                   next_action, owed>>
    /\ UNCHANGED <<drops, lost_calls>>
    /\ UNCHANGED <<state, retry_count, dvars, svars, avars, cvars, hvars>>

\* _main_loop: the reconnection attempt succeeded; connection_restored is
\* awaited
reconnect_ok ==
    /\ LoopPreamble
    /\ is_connected' = TRUE
    /\ sio_reconnecting' = FALSE
    /\ failures' = 0
    /\ since_check' = since_check + delay'
    /\ BeginRestored
    /\ lpc' = "main_loop_restored"
    /\ UNCHANGED attempt
    /\ UNCHANGED <<action_queue, pending_sync, queue_file, sync_file,
                   next_action, owed>>
    /\ UNCHANGED drops
    /\ UNCHANGED <<dvars, svars, avars, cvars, hvars>>

\* connection_restored returned to _main_loop
loop_restored ==
    /\ lpc = "main_loop_restored"
    /\ mop.op = "connection_restored"
    /\ mop.pc = "return"
    /\ mop' = Idle
    /\ offline_mode' = FALSE
    /\ reconnect_attempts' = 0
    /\ lpc' = "main_loop"
    /\ UNCHANGED <<attempt, is_connected, failures>>
    /\ UNCHANGED <<action_queue, pending_sync, queue_file, sync_file,
                   next_action, owed>>
    /\ UNCHANGED <<state, retry_count, dvars, svars, avars, ovars>>

\* the steps AutonovaAgent itself takes, a failing connect() taking one of
\* the durations D
AgentSteps(D) ==
    \/ start_attempt_failed
    \/ start_attempt_ok
    \/ start_restored
    \/ \E c \in D : reconnect_failed(c)
    \/ \E scan \in FullScans : run_autonomous_check(scan)
    \/ autonomous_check_fails
    \/ autonomous_check_done
    \/ reconnect_ok
    \/ loop_restored
    \/ restored_send_ok
    \/ restored_send_fails
    \/ restored_clear
    \/ save_open
    \/ save_queue
    \/ save_sync

LoopNext ==
    \/ AgentSteps(ConnectSeconds)
    \/ connection_drops
    \/ auto_reconnect

SpecLoop == SInit /\ [][LoopNext]_vars

\* every failing connect() is refused at once
LoopNextRefused ==
    \/ AgentSteps({0})
    \/ connection_drops
    \/ auto_reconnect

\* the event loop keeps running the agent's coroutine when it is ready;
\* whether a connection attempt succeeds is up to the network
SpecLoopFair ==
    SInit /\ [][LoopNextRefused]_vars /\ WF_vars(AgentSteps({0}))

\* ------------------------------- the offline check over a stored queue
\* action_queue.json as an earlier run left it: pending actions in
\* priority order
StoredQueues ==
    UNION {{SortByPriority([i \in 1..k |->
                NewAction(i, f[i].type, f[i].priority)]) :
                f \in [1..k -> ActionInputs]} : k \in 0..MaxActions}

\* AutonomousManager.__init__ in a data directory that holds a queue file:
\* _load_persisted_data reads it
StoredInit ==
    /\ state = "disconnected"
    /\ retry_count = 0
    /\ action_queue \in StoredQueues
    /\ queue_file = Json(action_queue)
    /\ pending_sync = <<>>
    /\ sync_file = Absent
    /\ next_action = Len(action_queue) + 1
    /\ mop = Idle
    /\ owed = {}
    /\ scan_in = EmptyScan
    /\ last_scan_results = EmptyScan
    /\ recommendations = <<>>
    /\ interval = 0

CycleInit ==
    ControlInit /\ StoredInit /\ LoopInit /\ CipherIdle /\ HeartbeatIdle

\* the agent never reaches the service: start gives up, the main loop
\* retries and runs its offline checks
CycleNext ==
    \/ start_attempt_failed
    \/ reconnect_failed(0)
    \/ \E scan \in FullScans : run_autonomous_check(scan)
    \/ autonomous_check_fails
    \/ autonomous_check_done
    \/ save_open
    \/ save_queue
    \/ save_sync

SpecCycle == CycleInit /\ [][CycleNext]_vars

\* ------------------------------------ a command from submit to executor
\* the branches of the if / elif chain of CommandExecutor.execute
handled_commands ==
    {"health_check", "deep_clean", "sys_fix", "full_optimize",
     "view_processes", "analyze_disk", "force_delete", "clean_registry",
     "speed_up_boot", "network_reset", "generate_report", "self_destruct",
     "force_uninstall", "kill_process", "list_programs"}

\* the branch execute takes: one that calls a collaborator, or the final
\* else, which returns {"error": "Comando desconocido: ..."}
ExecutorBranch(type) ==
    IF type \in handled_commands THEN "handler" ELSE "unknown_command"

\* the types the operator asks for: the allow-list and one outside it
RequestedTypes == valid_commands \cup {"reboot"}

\* on_command for a transmitted command, up to the return of execute
execute_dispatched(c) ==
    /\ transport_up
    /\ c \notin DOMAIN handlers
    /\ \E p \in emitted : p.id = c
    /\ handlers' = (c :> [pc |-> "responding", produced |-> 0,
                          outcome |->
                              ExecutorBranch(pending_commands[c].command.type),
                          serializable |-> TRUE]) @@ handlers
    /\ UNCHANGED <<transport_up, frames>>
    /\ UNCHANGED <<svars, mvars, lvars, ovars>>

\* send_response: what execute returned travels as a result frame and is
\* recorded by the service
agent_result(c) ==
    /\ c \in DOMAIN handlers
    /\ handlers[c].pc = "responding"
    /\ pending_commands[c].status # "completed"
    /\ \E p \in emitted :
           /\ p.id = c
           /\ on_result(p.sid, c, pending_commands[c].agent_id, "ok")

TypesNext ==
    \/ on_connect
    \/ \E a \in AgentIds : on_auth(SidOf(a), a)
    \/ \E a \in AgentIds, type \in RequestedTypes :
           send_command(a, type, "true")
    \/ \E c \in CmdIds : transmit_start(c)
    \/ \E c \in CmdIds : transmit_sent(c)
    \/ \E c \in CmdIds : execute_dispatched(c)
    \/ \E c \in CmdIds : agent_result(c)

SpecTypes == SInit /\ [][TypesNext]_vars

\* ------------------------------------- the loop and a live command
\* a command frame arrives over the connected session
live_command(c) ==
    /\ is_connected
    /\ on_command(c)

\* the agent's loop together with the handling of one command up to the
\* return of the executor
LiveNext ==
    \/ LoopNext
    \/ live_command(1)
    \/ execute_returns(1, TRUE)
    \/ execute_raises(1)

SpecLive == SInit /\ [][LiveNext]_vars

\* ------------------------------------------------- one frame on the wire
MaxEnvelope == block_size + MaxPlain + block_size

CipherNext ==
    \/ \E iv \in Blocks : encrypt(iv)
    \/ \E pos \in 1..MaxEnvelope, bit \in 0..2 : corrupt(pos, bit)
    \/ decrypt

CInit ==
    ControlInit /\ ManagerInit /\ LoopInit /\ CipherInit /\ HeartbeatIdle

SpecCipher == CInit /\ [][CipherNext]_vars

\* ================================================================ claims
Terminal == {"completed", "error"}

\* the spec's isOnline(session): online flag and heartbeat age below timeout
IsOnline(info) ==
    info.online /\ (now - info.last_heartbeat) < HEARTBEAT_TIMEOUT

NothingDispatched ==
    UNCHANGED <<pending_commands, next_cmd, tasks, emitted>>

\* C1: under any interleaving of the transmit step with the inbound
\* result/error handlers, a command whose status is completed or error is
\* never moved back to pending or sent.
C1_StatusNeverRegresses ==
    [][\A c \in DOMAIN pending_commands :
           pending_commands[c].status \in Terminal =>
               pending_commands'[c].status \in Terminal]_vars

\* C2: a result or error frame for a command that is already completed or
\* error leaves its status, result and error fields as they were.
C2_TerminalWriteIsNoOp ==
    [][(/\ last'.op \in {"result", "error"}
        /\ last'.cmd \in DOMAIN pending_commands
        /\ pending_commands[last'.cmd].status \in Terminal)
       => /\ pending_commands'[last'.cmd].status =
                 pending_commands[last'.cmd].status
          /\ pending_commands'[last'.cmd].result =
                 pending_commands[last'.cmd].result
          /\ pending_commands'[last'.cmd].error =
                 pending_commands[last'.cmd].error]_vars

\* C3: every command the agent has finished handling got exactly one
\* terminal frame (result or error) with its id, whatever the executor did
\* and whether or not sending the result failed.
C3_ExactlyOneTerminalFrame ==
    \A c \in DOMAIN handlers :
        handlers[c].pc = "done" => Cardinality(TerminalFramesOf(c)) = 1

\* C4: when the collaborator raised, the terminal frame of the command is an
\* error frame, never a result frame.
C4_RaiseEndsInErrorFrame ==
    \A c \in DOMAIN handlers :
        handlers[c].outcome = "raised" =>
            \A i \in TerminalFramesOf(c) : frames[c][i].kind = "error"

\* C5: among the frames of one command id every frame that precedes another
\* is a progress frame, and progress frames appear in the order the executor
\* produced them; so the terminal frame is last and nothing follows it, also
\* with several commands in flight.
C5_ProgressOrderedTerminalLast ==
    \A c \in AgentCmdIds :
        \A i, j \in 1..Len(frames[c]) :
            i < j =>
                /\ frames[c][i].kind = "progress"
                /\ frames[c][j].kind = "progress" =>
                       frames[c][i].seq < frames[c][j].seq

\* two commands are in flight at once: one has emitted all its progress
\* frames and its terminal frame while the other is still between two
\* progress frames
C5_Witness ==
    /\ DOMAIN handlers = {1, 2}
    /\ handlers[1].pc = "done"
    /\ Len(frames[1]) = MaxEmits + 1
    /\ TerminalFramesOf(1) # {}
    /\ handlers[2].pc = "executing"
    /\ Len(frames[2]) = 1

\* C6: a submit to an agent id without session answers AgentNotFound, a
\* submit to a session that is not currently online (flag false, or heartbeat
\* age past the timeout) answers AgentOffline, and in both cases no command
\* is created and nothing is transmitted.
C6_SubmitNeedsOnlineSession ==
    [][\A a \in AgentIds, r \in Requests :
           send_command(a, r.type, r.confirm) =>
               /\ ~HasKey(connected_agents, a) =>
                      /\ last'.resp = "404 Agent not found"
                      /\ NothingDispatched
               /\ (/\ HasKey(connected_agents, a)
                   /\ ~IsOnline(Get(connected_agents, a))) =>
                      /\ last'.resp = "400 Agent is offline"
                      /\ NothingDispatched]_vars

\* C7: every consumer of liveness (status query, agent listing) reports a
\* session online exactly when its flag is set and its heartbeat age is
\* below the timeout.
C7_LivenessIsDerived ==
    \A a \in Keys(connected_agents) :
        /\ get_agent_status(a).online = IsOnline(Get(connected_agents, a))
        /\ (AgentInfoStatus(a) = "online") = IsOnline(Get(connected_agents, a))

\* C8: the registry never holds two sessions for one agent id; an auth for an
\* agent id leaves exactly the fresh session (new handle, online, connectedAt
\* and lastHeartbeat stamped now) under that id; and closing a handle leaves
\* every session bound to another handle, a replacing session included, as it
\* was.
C8_AuthReplacesSession ==
    [][/\ \A i, j \in 1..Len(connected_agents') :
              connected_agents'[i].agent_id = connected_agents'[j].agent_id
                  => i = j
       /\ last'.op = "auth" /\ last'.resp = "auth_ack" =>
              \E i \in 1..Len(connected_agents') :
                  /\ connected_agents'[i].agent_id = last'.agent
                  /\ connected_agents'[i].sid = last'.sid
                  /\ connected_agents'[i].online
                  /\ connected_agents'[i].connected_at = now'
                  /\ connected_agents'[i].last_heartbeat = now'
       /\ last'.op = "disconnect" =>
              /\ Len(connected_agents') = Len(connected_agents)
              /\ \A i \in 1..Len(connected_agents) :
                     connected_agents[i].sid # last'.sid =>
                         connected_agents'[i] = connected_agents[i]]_vars

\* an old handle was closed after its session had been replaced, and the
\* replacing session is still online
C8_Witness ==
    /\ last.op = "disconnect"
    /\ replaced[2] = last.sid
    /\ HasKey(connected_agents, replaced[1])
    /\ Get(connected_agents, replaced[1]).sid # last.sid
    /\ Get(connected_agents, replaced[1]).online

\* C9: after a transport handle is closed no session bound to that handle is
\* still flagged online, and sessions bound to other handles are unchanged.
C9_CloseMarksHandleOffline ==
    [][last'.op = "disconnect" =>
           \A i \in 1..Len(connected_agents') :
               /\ connected_agents'[i].sid = last'.sid =>
                      ~connected_agents'[i].online
               /\ connected_agents'[i].sid # last'.sid =>
                      connected_agents'[i] = connected_agents[i]]_vars

\* C10: a submit whose type is not in the allow-list is rejected and creates
\* no command, allocates no id and transmits nothing.
C10_UnknownTypeRejected ==
    [][\A a \in AgentIds, r \in Requests :
           (r.type \notin valid_commands
                /\ send_command(a, r.type, r.confirm)) =>
               /\ last'.resp \in {"404 Agent not found", "400 Agent is offline",
                                  "400 Invalid command"}
               /\ last'.cmd = 0
               /\ NothingDispatched]_vars

\* an unknown type was submitted for an online agent and answered 400
C10_Witness ==
    /\ last.op = "submit"
    /\ last.resp = "400 Invalid command"
    /\ Get(connected_agents, last.agent).online

\* the actions of q are in ascending priority order
Sorted(q) ==
    \A i, j \in 1..Len(q) : i < j => q[i].priority <= q[j].priority

\* C11: a self_destruct submit whose params.confirm is anything but the
\* boolean true (absent, false, a non-boolean value) is rejected: no command
\* id is allocated and nothing is scheduled or transmitted.
C11_SelfDestructNeedsBooleanTrue ==
    [][\A a \in AgentIds, r \in Requests :
           (/\ r.type = "self_destruct"
            /\ r.confirm # "true"
            /\ send_command(a, r.type, r.confirm)) =>
               /\ last'.cmd = 0
               /\ NothingDispatched]_vars

\* C12: in every state of the manager (after any sequence of queue_action,
\* execution passes and restarts from the files it wrote itself) the pending
\* action queue is sorted ascending by priority; a CRITICAL action stands
\* ahead of every MEDIUM or LOW one, also when it was queued later.
C12_QueueSortedByPriority ==
    /\ Sorted(action_queue)
    /\ \A i, j \in 1..Len(action_queue) :
           (/\ action_queue[i].priority = CRITICAL
            /\ action_queue[j].priority \in {MEDIUM, LOW}) => i < j

\* a CRITICAL action queued second stands in front of the MEDIUM or LOW
\* action queued first, and queue_action has returned
C12_Witness ==
    /\ mop = Idle
    /\ Len(action_queue) = 2
    /\ action_queue[1].id = 2
    /\ action_queue[1].priority = CRITICAL
    /\ action_queue[2].id = 1
    /\ action_queue[2].priority \in {MEDIUM, LOW}

\* C13: every action queue_action has returned, and that no execution pass
\* has removed, is in the pending queue, also in the queue reloaded after
\* the process stopped at any point and was restarted.
C13_QueuedActionsDurable ==
    owed \subseteq Ids(action_queue)

\* C15: when an execution pass ends, every action that was pending at its
\* start has been handed to the executor exactly once (a failure did not
\* end the batch), each is either executed or failed, the queue holds only
\* pending actions, and exactly one summary item was queued whose
\* executed_count + failed_count is the number of actions pending at start.
C15_PassRunsWholeBatch ==
    (mop.op = "pass" /\ mop.pc = "return") =>
        /\ Len(mop.calls) = Len(mop.start)
        /\ \A a \in Ids(mop.start) :
               Cardinality({k \in 1..Len(mop.calls) : mop.calls[k].id = a}) = 1
        /\ \A k \in 1..Len(mop.executed), n \in 1..Len(mop.failed) :
               mop.executed[k] # mop.failed[n]
        /\ Len(mop.executed) + Len(mop.failed) = Len(mop.start)
        /\ \A i \in 1..Len(action_queue) : action_queue[i].status = "pending"
        /\ Len(pending_sync) = mop.sync0 + 1
        /\ pending_sync[Len(pending_sync)].type = "autonomous_results"
        /\ pending_sync[Len(pending_sync)].data.executed_count
               + pending_sync[Len(pending_sync)].data.failed_count
           = Len(mop.start)

\* a pass of two actions ended in which the executor raised on the first
\* action and returned on the second
C15_Witness ==
    /\ mop.op = "pass"
    /\ mop.pc = "return"
    /\ Len(mop.start) = 2
    /\ mop.failed = <<mop.start[1].id>>
    /\ mop.executed = <<mop.start[2].id>>

\* C16: within one pass the executor is called on the pending actions in
\* non-decreasing priority order, each call receiving the id and type of
\* its action.
C16_PassInPriorityOrder ==
    mop.op = "pass" =>
        /\ \A k \in 1..Len(mop.calls) :
               \E i \in 1..Len(mop.start) :
                   mop.calls[k] = [id |-> mop.start[i].id,
                                   type |-> mop.start[i].type]
        /\ \A j, k \in 1..Len(mop.calls), a, b \in 1..Len(mop.start) :
               (/\ j < k
                /\ mop.start[a].id = mop.calls[j].id
                /\ mop.start[b].id = mop.calls[k].id) =>
                   mop.start[a].priority <= mop.start[b].priority

\* a pass called the executor first on the CRITICAL action queued second,
\* then on the LOW action queued first
C16_Witness ==
    /\ mop.op = "pass"
    /\ Len(mop.calls) = 2
    /\ mop.calls[1] = [id |-> 2, type |-> "kill_process"]
    /\ mop.calls[2] = [id |-> 1, type |-> "maintenance"]

Analyzed == mop.op = "analyze_and_decide" /\ mop.pc = "return"

HasRec(action) ==
    \E i \in 1..Len(recommendations) : recommendations[i].action = action

\* C17: analyze_and_decide yields full_repair at CRITICAL exactly when the
\* score is below 40, deep_clean at HIGH exactly when 40 <= score < 60,
\* never both, neither when the score is 60 or more or absent; score 90
\* without threats and issues yields the empty list.
C17_ScoreRuleExclusive ==
    Analyzed =>
        /\ HasRec("full_repair") <=> (scan_in.has_score /\ scan_in.score < 40)
        /\ HasRec("deep_clean") <=>
               (scan_in.has_score /\ 40 <= scan_in.score /\ scan_in.score < 60)
        /\ ~(HasRec("full_repair") /\ HasRec("deep_clean"))
        /\ \A i \in 1..Len(recommendations) :
               /\ recommendations[i].action = "full_repair" =>
                      recommendations[i].priority = CRITICAL
               /\ recommendations[i].action = "deep_clean" =>
                      recommendations[i].priority = HIGH
        /\ scan_in = Scan(TRUE, 90, <<>>, <<>>) => recommendations = <<>>

\* a scan with score 40 was analysed and gave deep_clean at HIGH
C17_Witness ==
    /\ Analyzed
    /\ scan_in.has_score
    /\ scan_in.score = 40
    /\ recommendations[1] = [action |-> "deep_clean", priority |-> HIGH]

IsThreatRule(t) == t \in {"suspicious_process", "suspicious_connection"}

IsIssueRule(is) ==
    \/ is.type \in {"disk", "memory"} /\ is.severity = "high"
    \/ is.type = "security"

\* C18: the returned list is the score recommendation (if any), then one
\* recommendation per suspicious_process / suspicious_connection threat in
\* input order, then one per disk-high, memory-high or security issue in
\* input order; other threats and issues add nothing.
C18_RulesInGenerationOrder ==
    Analyzed =>
        LET s == IF HasRec("full_repair") \/ HasRec("deep_clean")
                 THEN 1 ELSE 0
            th == SelectSeq(scan_in.threats_found, IsThreatRule)
            is == SelectSeq(scan_in.issues_found, IsIssueRule)
        IN /\ Len(recommendations) = s + Len(th) + Len(is)
           /\ s = 1 => recommendations[1].action \in {"full_repair", "deep_clean"}
           /\ \A k \in 1..Len(th) :
                  recommendations[s + k] =
                      [action |-> IF th[k] = "suspicious_process"
                                  THEN "kill_process" ELSE "block_connection",
                       priority |-> CRITICAL]
           /\ \A k \in 1..Len(is) :
                  recommendations[s + Len(th) + k] =
                      [action |-> IF is[k].type = "disk" THEN "clean_disk"
                                  ELSE IF is[k].type = "memory"
                                  THEN "free_memory" ELSE "fix_security",
                       priority |-> IF is[k].type = "security"
                                    THEN CRITICAL ELSE HIGH]

\* a scan with a low score, a connection threat before a process threat
\* and a medium security issue before a high disk issue was analysed
C18_Witness ==
    /\ Analyzed
    /\ scan_in.has_score /\ scan_in.score = 39
    /\ scan_in.threats_found = <<"suspicious_connection", "suspicious_process">>
    /\ scan_in.issues_found = <<[type |-> "security", severity |-> "medium"],
                                [type |-> "disk", severity |-> "high"]>>
    /\ Len(recommendations) = 5

\* C19: the value get_retry_interval returns is
\* min(retry_interval * 2^retry_count, max_retry_interval): never above the
\* cap and not below the value for any smaller retry_count.
C19_RetryIntervalCappedMonotone ==
    interval # 0 =>
        /\ interval <= max_retry_interval
        /\ \/ interval = retry_interval * (2 ^ retry_count)
           \/ /\ interval = max_retry_interval
              /\ retry_interval * (2 ^ retry_count) >= max_retry_interval
        /\ \A k \in 0..retry_count : RetryIntervalAt(k) <= interval

\* the interval was asked for with retry_count 7, where 5 * 2^7 = 640 is
\* above the cap
C19_Witness ==
    /\ retry_count = 7
    /\ interval = max_retry_interval

C20_RetryCountTracksFailures ==
    /\ retry_count = failures
    /\ get_retry_interval
           = Min(retry_interval * (2 ^ failures), max_retry_interval)
\* C21: whenever the main loop counts a reconnection attempt n, the delay
\* it sleeps before the attempt is min(5 * 2^(n-1), 120) seconds, which is
\* at most 120 and not less than the delay of the attempt before
C21_BackoffDelay ==
    [][reconnect_attempts' > reconnect_attempts =>
          /\ delay' = Min(5 * (2 ^ (reconnect_attempts' - 1)), 120)
          /\ delay' <= 120
          /\ (reconnect_attempts >= 1 => delay' >= delay)]_vars

\* C21 witness: the seventh attempt of an outage slept the capped delay
C21_Witness ==
    /\ ~is_connected
    /\ reconnect_attempts = 7
    /\ delay = 120

\* the loop can still count an attempt within the bounds of the model
WithinBounds ==
    /\ lpc # "connect_with_retry" => reconnect_attempts < MaxAttempts
    /\ since_check + max_reconnect_delay + connection_timeout <= MaxClock

\* C22: while the agent is not connected it always makes another
\* connection attempt, after any number of failures and also after the
\* start-up attempts have all failed
C22_AlwaysAnotherAttempt ==
    \A t \in {0, 1} :
        (~is_connected /\ tries = t /\ WithinBounds)
            ~> (is_connected \/ tries # t)

\* C22 witness: all start-up attempts failed, the main loop has failed
\* eleven times and is about to try again
C22_Witness ==
    /\ lpc = "main_loop"
    /\ ~is_connected
    /\ ~sio_reconnecting
    /\ failures = max_initial_attempts + 11
    /\ reconnect_attempts = 11

\* C23: a failed reconnection attempt triggers the autonomous check
\* exactly when it is at least the 10th failed attempt in a row and at
\* least 300 s have passed since the last autonomous check
C23_CheckTriggeredWhenDue ==
    [][\A c \in ConnectSeconds :
          reconnect_failed(c) =>
              ((lpc' = "autonomous_check")
                  <=> (reconnect_attempts' >= 10 /\ since_check' >= 300))]_vars

\* C24: whenever the agent is connected and its loop is at rest, the
\* attempt counter is 0, offline_mode is off, the manager has been told
\* and the sync queue has been flushed
C24_ReconnectAlwaysRestores ==
    (is_connected /\ lpc = "main_loop" /\ mop = Idle) =>
        /\ reconnect_attempts = 0
        /\ ~offline_mode
        /\ state = "connected"
        /\ pending_sync = <<>>

\* C25: a frame that fails to decrypt is dropped: handling it changes no
\* session and closes no connection (here: an auth frame at the service)
C25_UndecryptableFrameDropped ==
    [][\A sid \in Sids :
          on_auth_rejected(sid) =>
              /\ open_sids' = open_sids
              /\ connected_agents' = connected_agents]_vars

\* C26: as the two programs are configured, a frame that reaches the other
\* side unchanged decrypts there to the text that was encrypted
C26_RoundTripAcrossSides ==
    (received # NoFrame /\ ~corrupted) => received = Ok(plain)

\* C27: with the same key on both sides, a frame of which one bit was
\* changed makes decrypt fail; it never returns a text
C27_CorruptionDetected ==
    (received # NoFrame /\ corrupted /\ AgentKey = ServiceKey) =>
        received.st = "error"

C29_TransmitLeavesSentOrError ==
    [][/\ \A c \in DOMAIN pending_commands' :
             pending_commands'[c].status = "pending" =>
                 (c \in DOMAIN tasks' /\ tasks'[c].pc = "emitting")
       /\ \A c \in CmdIds :
             (c \in DOMAIN tasks /\ tasks[c].pc = "emitting"
              /\ c \notin DOMAIN tasks') =>
                 IF [sid |-> tasks[c].sid, id |-> c] \in emitted'
                 THEN pending_commands'[c].status = "sent"
                 ELSE /\ pending_commands'[c].status = "error"
                      /\ pending_commands'[c].error # None]_vars

\* C29 witness: a transmit step has ended in a failure
C29_Witness ==
    /\ 1 \in DOMAIN pending_commands
    /\ 1 \notin DOMAIN tasks
    /\ last = Op("transmit", 0, None, 1, "failed")
    /\ pending_commands[1].status = "error"

\* entries for command c in the audit log of agent a's session
CountLogs(agents, a, c) ==
    IF HasKey(agents, a)
    THEN Cardinality({i \in 1..Len(Get(agents, a).command_logs) :
                         Get(agents, a).command_logs[i].command_id = c})
    ELSE 0

\* the step finalizes command c exactly when c is known and not yet
\* terminal; then the session c was dispatched to gains one entry for c,
\* and no other log changes
AuditedOnce(c) ==
    LET finalizes == /\ c \in DOMAIN pending_commands
                     /\ pending_commands[c].status \notin Terminal
    IN  \A a \in AgentIds :
            CountLogs(connected_agents', a, c) =
                CountLogs(connected_agents, a, c)
                + (IF finalizes /\ a = pending_commands[c].agent_id
                   THEN 1 ELSE 0)

\* C30: a result or error frame that finalizes a command appends exactly
\* one entry for it to the audit log of the session it was dispatched to;
\* a terminal frame that finalizes nothing appends none
C30_FinalizingFrameAudited ==
    [][/\ \A sid \in Sids, c \in CmdIds, a \in AgentIds, d \in ResultData :
             on_result(sid, c, a, d) => AuditedOnce(c)
       /\ \A sid \in Sids, c \in CmdIds, t \in ErrorText :
             on_error(sid, c, t) => AuditedOnce(c)]_vars

\* C31: a progress frame for a known command id is appended at the end of
\* that command's progress list, the earlier entries and everything else
\* staying as they were, and it is republished; a progress frame for an
\* unknown id changes no command and no session and is not republished
C31_ProgressAppendedOrDropped ==
    [][\A sid \in Sids, c \in CmdIds, a \in AgentIds, d \in ProgressData :
          on_progress(sid, c, a, d) =>
              IF c \in DOMAIN pending_commands
              THEN LET old == pending_commands[c].progress
                       new == pending_commands'[c].progress
                   IN  /\ Len(new) = Len(old) + 1
                       /\ SubSeq(new, 1, Len(old)) = old
                       /\ new[Len(new)] = [agent_id |-> a, data |-> d]
                       /\ [pending_commands' EXCEPT ![c].progress = old]
                              = pending_commands
                       /\ connected_agents' = connected_agents
                       /\ last'.resp = "command_progress"
              ELSE /\ pending_commands' = pending_commands
                   /\ connected_agents' = connected_agents
                   /\ last'.resp = None]_vars

\* C31 witness: a second progress frame was appended behind a different
\* first one
C31_Witness ==
    /\ last.op = "progress"
    /\ 1 \in DOMAIN pending_commands
    /\ Len(pending_commands[1].progress) = 2
    /\ pending_commands[1].progress[1].agent_id = "a1"
    /\ pending_commands[1].progress[2].agent_id = "a2"

\* C32: a heartbeat frame is emitted only while the state is CONNECTED;
\* once the transport is closed, by a disconnect event or by disconnect(),
\* no heartbeat task runs and the state is not CONNECTED until the next
\* connection; on every connection the first frame emitted is the auth
\* frame, so no heartbeat frame precedes it.
C32_HeartbeatOnlyWhileConnected ==
    /\ ~stray_heartbeat
    /\ (~sio_connected /\ ~stopping) =>
           (running_tasks = {} /\ conn_state # "connected")
    /\ (wire # <<>>) => (wire[1] = "auth")

\* C32 witness: a second connection, after the first one was lost, has
\* carried its auth frame and then a heartbeat frame
C32_Witness ==
    /\ conn_state = "connected"
    /\ heartbeat_task = 2
    /\ wire = <<"auth", "heartbeat">>

\* C36: whenever the state is CONNECTED and no connect handler is under
\* way, exactly one heartbeat task is running.
C36_ExactlyOneTask ==
    (conn_state = "connected" /\ connecting = 0) =>
        Cardinality(running_tasks) = 1

\* C36 as amended: whenever the state is CONNECTED, no connect handler is
\* under way and disconnect() is not between cancelling the task and
\* setting DISCONNECTED, exactly one heartbeat task is running, and it is
\* the one heartbeat_task refers to.
C36_ExactlyOneTaskUnlessStopping ==
    (conn_state = "connected" /\ connecting = 0 /\ ~stopping) =>
        running_tasks = {heartbeat_task}

\* C36 witness: connected for the third time, every handler finished, only
\* the third task running
C36_Witness ==
    /\ conn_state = "connected"
    /\ connecting = 0
    /\ ~stopping
    /\ heartbeat_task = 3
    /\ running_tasks = {3}

\* C33: a write of the queue files that fails does not fail the operation:
\* no exception leaves _save_persisted_data; when queue_action returns its
\* action is in the in-memory queue, when queue_for_sync returns its item
\* is the last of the in-memory sync queue, when an execution pass returns
\* it has appended its summary; and every action queue_action has returned
\* and no pass has executed is still in the in-memory queue, which stays
\* sorted by priority.
C33_WriteFailureKeepsGoing ==
    /\ mop.pc # "raised"
    /\ (mop.op = "queue_action" /\ mop.pc = "return") =>
           mop.id \in Ids(action_queue)
    /\ (mop.op = "queue_for_sync" /\ mop.pc = "return") =>
           /\ Len(pending_sync) = mop.sync0 + 1
           /\ pending_sync[Len(pending_sync)].type = "scan_results"
    /\ (mop.op = "pass" /\ mop.pc = "return") =>
           /\ Len(pending_sync) = mop.sync0 + 1
           /\ pending_sync[Len(pending_sync)].type = "autonomous_results"
           /\ pending_sync[Len(pending_sync)].data.actions
                  = mop.executed \o mop.failed
           /\ Len(mop.executed) + Len(mop.failed) = Len(mop.start)
    /\ owed \subseteq Ids(action_queue)
    /\ action_queue = SortByPriority(action_queue)

\* C33 witness: an execution pass that executed an action returns although
\* no write ever reached the disk
C33_Witness ==
    /\ mop.op = "pass"
    /\ mop.pc = "return"
    /\ Len(mop.executed) > 0
    /\ queue_file = Absent
    /\ sync_file = Absent
    /\ Len(pending_sync) = 2

\* C34: no step of the autonomous diagnostic cycle changes the pending
\* action queue, the manager state or the retry counter, or calls the
\* executor; the sync queue changes once per cycle, at the step that runs
\* analyze_and_decide (which stores the recommendations it computes from
\* the scan alone), by having one scan_results item appended.
C34_CycleTakesNoAction ==
    [][(lpc = "autonomous_check") =>
          /\ action_queue' = action_queue
          /\ state' = state
          /\ retry_count' = retry_count
          /\ mop'.calls = <<>>
          /\ mop'.op # "pass"
          /\ (mop # Idle /\ mop' = Idle) => lpc' = "main_loop"
          /\ (pending_sync' # pending_sync) =>
                 /\ mop = Idle
                 /\ mop' # Idle
                 /\ recommendations' = Recommend(last_scan_results')
                 /\ pending_sync' = Append(pending_sync,
                        SyncItem("scan_results", last_scan_results'))]_vars

\* C34 witness: a cycle is over whose scan led to recommendations, the two
\* stored actions are still pending and the sync queue holds the scan
C34_Witness ==
    /\ lpc = "main_loop"
    /\ mop = Idle
    /\ recommendations # <<>>
    /\ Len(action_queue) = 2
    /\ \A i \in 1..2 : action_queue[i].status = "pending"
    /\ Len(pending_sync) = 1
    /\ pending_sync[1].type = "scan_results"

\* C35: in every outage that follows an established connection, once the
\* main loop has made a reconnection attempt that failed, connection_lost
\* has been called exactly once since the transport went down.
C35_OneNoticePerLoss ==
    (drops > 0 /\ ~is_connected /\ failures > 0) => lost_calls = 1

\* C37: every command id submit has returned, once its background transmit
\* has ended, names a record of pending_commands
C37_ReturnedIdHasRecord ==
    \A c \in 1..(next_cmd - 1) :
        (c \notin DOMAIN tasks) => (c \in DOMAIN pending_commands)

\* the frame comes over the session of the agent command c was sent to
FromOwnSession(sid, c) ==
    /\ HasKey(connected_agents, pending_commands[c].agent_id)
    /\ Get(connected_agents, pending_commands[c].agent_id).sid = sid

\* C38: a result frame that names a known command and arrives on a session
\* other than that of the command's agent, or carries another agent id,
\* changes neither the command nor any audit log; an error frame from
\* another session does not change the command
C38_OnlyOwnSessionFinalizes ==
    [][/\ \A sid \in Sids, c \in CmdIds, a \in AgentIds, d \in ResultData :
           (/\ c \in DOMAIN pending_commands
            /\ (~FromOwnSession(sid, c) \/ a # pending_commands[c].agent_id)
            /\ on_result(sid, c, a, d))
               => /\ pending_commands' = pending_commands
                  /\ connected_agents' = connected_agents
       /\ \A sid \in Sids, c \in CmdIds, t \in ErrorText :
           (/\ c \in DOMAIN pending_commands
            /\ ~FromOwnSession(sid, c)
            /\ on_error(sid, c, t))
               => pending_commands' = pending_commands]_vars

Range(q) == {q[i] : i \in 1..Len(q)}

\* the summaries among the sync items of a completely written file
PersistedSummaries ==
    IF sync_file.exists /\ sync_file.valid
    THEN {it \in Range(sync_file.value) : it.type = "autonomous_results"}
    ELSE {}

\* C39: at every point of an execution pass (where a crash may stop it),
\* if the completely written queue file no longer holds an action the pass
\* has executed or failed, the sync file holds a summary that names it
C39_DroppedActionHasSummary ==
    (mop.op = "pass") =>
        \A id \in Range(mop.executed \o mop.failed) :
            (queue_file.exists /\ queue_file.valid
                /\ id \notin Ids(queue_file.value))
            => \E it \in PersistedSummaries : id \in Range(it.data.actions)

\* C40: a command of an allow-listed type that reaches the executor is
\* handled by one of its branches and never by the unknown-command
\* fallback
C40_AllowListedTypeIsHandled ==
    \A c \in DOMAIN handlers :
        (pending_commands[c].command.type \in valid_commands)
            => handlers[c].outcome = "handler"

====
